---- MODULE Spec2Model ----
(***************************************************************************)
(* Price cache, fetch orchestrator and refresh scheduler of the Pstryk     *)
(* price driver (PriceDataCache, APIOrchestrator, PstrykPriceDriver).      *)
(*                                                                         *)
(* Time is in milliseconds, as Date.now() gives it.  The epoch is a local  *)
(* midnight, so local wall-clock values are computed directly from the     *)
(* instant (the timezone offset is folded into the epoch).                 *)
(*                                                                         *)
(* JavaScript null is written per type, because every use in the code      *)
(* coerces it: a null number is 0 (`x || null` maps 0 to null, and          *)
(* `t > null` compares with 0), a null date is NullDate, a null average    *)
(* is NullAvg.                                                             *)
(***************************************************************************)
EXTENDS Integers, Sequences, FiniteSets, TLC

VARIABLES
    now,                    \* Date.now()
    devices,                \* driver.getDevices(): the paired devices' settings
    deleted,                \* whether the driver's onDeleted has run
    cache,                  \* APIOrchestrator.cache (PriceDataCache fields)
    isRefreshing,           \* APIOrchestrator.isRefreshing
    manualRefreshRequested, \* APIOrchestrator.manualRefreshRequested
    lastManualRefreshTime,  \* APIOrchestrator.lastManualRefreshTime
    inflight,               \* upstream requests awaiting their response, with the suspended caller
    startupTimer,           \* deadline of onInit's setTimeout(..., 2000), 0 once fired
    refreshTimeout,         \* deadline of the pending _refreshTimeout, 0 when none is pending
    cacheCheckInterval,     \* next firing of _cacheCheckInterval
    retryTimer,             \* pending updatePrices retry: [at, retryCount], at = 0 when none
    lastStatus,             \* status of the last 'cache-status-changed' event
    lastManual,             \* how the last requestManualRefreshImmediate call went
    installed,              \* the data the last updateCache call was given
    acceptedAt,             \* time of the last accepted requestManualRefreshImmediate, 0 if none
    ticks,                  \* number of time advances so far
    updateCalls,            \* number of calls of updatePrices from outside so far
    deviceFrames,           \* PstrykPriceDevice: validFrames of its last price response
    ranks,                  \* capabilities current_hour_in_cheapest*, by window size
    position,               \* result of the last calculateTiedPricePosition call
    flowResult,             \* outcome of the last flow condition evaluated
    previousBlocks,         \* PstrykPriceDevice._previousBlocks
    lastUsageCheck,         \* PstrykPriceDevice._lastUsageCheck, 0 while undefined
    maximise_usage_now,     \* capability maximise_usage_now
    minimise_usage_now,     \* capability minimise_usage_now
    usageChecked,           \* whether the last checkCurrentUsagePeriod call ran its check
    priceRequest,           \* PstrykPriceDevice.updatePrices: "idle", or "pending" while it awaits the API
    lastPriceUpdate,        \* PstrykPriceDevice._lastPriceUpdate, 0 while undefined
    mergeCall,              \* the last mergeBlocks call observed: its argument and its result
    deviceTimers            \* PstrykPriceDevice: its priceRefreshHour setting and its refresh timeouts

\* PstrykPriceDevice's fields and capabilities
\* the usage-period part of PstrykPriceDevice
usage == <<previousBlocks, lastUsageCheck, maximise_usage_now, minimise_usage_now,
           usageChecked, priceRequest, lastPriceUpdate, mergeCall, deviceTimers>>

device == <<deviceFrames, ranks, position, flowResult, usage>>

\* APIOrchestrator's own fields
orchestrator == <<cache, isRefreshing, manualRefreshRequested, lastManualRefreshTime>>

\* the driver's timers
timers == <<startupTimer, refreshTimeout, cacheCheckInterval, retryTimer>>

vars == <<now, devices, deleted, cache, isRefreshing, manualRefreshRequested,
          lastManualRefreshTime, inflight, startupTimer, refreshTimeout,
          cacheCheckInterval, retryTimer, lastStatus, lastManual, installed,
          acceptedAt, ticks, updateCalls, device>>

----------------------------------------------------------------------------
(* Bounds of the model *)

\* Number of time advances of one behaviour.
MaxTicks == 5

\* Number of calls of updatePrices from outside the driver in one behaviour.
MaxUpdateCalls == 1

----------------------------------------------------------------------------
(* Time and Date *)

SecondMs == 1000
MinuteMs == 60 * SecondMs
HourMs == 60 * MinuteMs
DayMs == 24 * HourMs

\* Date.prototype.toLocaleDateString("en-CA"): the local calendar day.
LocalDate(t) == t \div DayMs

\* Date.prototype.getHours()
GetHours(t) == (t % DayMs) \div HourMs

\* Date.prototype.setHours(h, 0, 0, 0)
SetHours(t, h) == (t \div DayMs) * DayMs + h * HourMs

\* d.setDate(d.getDate() + 1)
AddDay(t) == t + DayMs

NullDate == 0 - 1
NullAvg == [num |-> 0, den |-> 1]
NullSnapshot == [null |-> TRUE]

RECURSIVE GCD(_, _)
GCD(a, b) == IF b = 0 THEN a ELSE GCD(b, a % b)

\* A JavaScript number that is a ratio of two integers, in lowest terms.
Rat(n, d) == IF n = 0 THEN [num |-> 0, den |-> 1]
             ELSE [num |-> n \div GCD(n, d), den |-> d \div GCD(n, d)]

----------------------------------------------------------------------------
(* PriceDataCache *)

\* constructor()
EmptyCache == [currentPrices |-> << >>, dailyAverage |-> NullAvg,
               lastUpdated |-> 0, expiresAt |-> 0, date |-> NullDate,
               isValid |-> FALSE]

isCacheValid_NoDateCheck(c, t) ==
    IF t > c.expiresAt THEN FALSE
    ELSE IF Len(c.currentPrices) = 0 THEN FALSE
    ELSE TRUE

\* isCacheValid() evaluated at time t
isCacheValid(c, t) ==
    IF c.date # LocalDate(t) THEN FALSE
    ELSE IF t > c.expiresAt THEN FALSE
    ELSE IF Len(c.currentPrices) = 0 THEN FALSE
    ELSE TRUE

updateCache_KeepsAverage(c, data, t) ==
    [currentPrices |-> data.currentPrices,
     dailyAverage |-> c.dailyAverage,
     lastUpdated |-> t,
     expiresAt |-> data.expiresAt,
     date |-> data.date,
     isValid |-> TRUE]

\* updateCache(data) at time t: six assignments in one synchronous run;
\* data.isStale is not copied.  `x || null` is the identity on the null
\* representations used here.
updateCache(c, data, t) ==
    [currentPrices |-> data.currentPrices,
     dailyAverage |-> data.dailyAverage,
     lastUpdated |-> t,
     expiresAt |-> data.expiresAt,
     date |-> data.date,
     isValid |-> TRUE]

\* getCachedData() at time t
getCachedData(c, t) ==
    IF ~isCacheValid(c, t) THEN NullSnapshot
    ELSE [currentPrices |-> c.currentPrices,
          dailyAverage |-> c.dailyAverage,
          lastUpdated |-> c.lastUpdated,
          expiresAt |-> c.expiresAt,
          date |-> c.date]

----------------------------------------------------------------------------
(* Devices and upstream responses *)

\* The settings of the paired devices (getDevices()); priceRefreshHour 0
\* stands for an unset or zero setting, which `|| 15` treats alike.
Configs ==
    { << >>,
      << [apiKey |-> "", priceRefreshHour |-> 0] >>,
      << [apiKey |-> "key", priceRefreshHour |-> 23] >> }

\* The instants at which the driver's onInit may run.
StartTimes == { DayMs + 22 * HourMs + 58 * MinuteMs }

\* A frame of the upstream response starting `off` hours after the hour of t0.
Frame(t0, off, price, flag) ==
    [start |-> (t0 \div HourMs) * HourMs + off * HourMs,
     price_gross |-> price, is_cheap |-> flag, is_expensive |-> "false"]

\* What _apiRequest can settle with, for a request issued at t0: a rejection
\* (transport error, unparseable body), a JSON body without frames, or a
\* body with frames and an optional daily_average (0: absent).
Responses(t0) ==
    { [kind |-> "error"],
      [kind |-> "malformed"],
      [kind |-> "ok", daily_average |-> 0,
       frames |-> << Frame(t0, 0, 10, "true"), Frame(t0, 1, 30, "false") >>],
      [kind |-> "ok", daily_average |-> 25,
       frames |-> << Frame(t0, 0, 20, "false"), Frame(t0, 1, 40, "null") >>],
      [kind |-> "ok", daily_average |-> 0,
       frames |-> << Frame(t0, 0, 50, "null") >>] }

----------------------------------------------------------------------------
(* APIOrchestrator *)

\* cooldownPeriod
CooldownPeriod == 5 * 60 * 1000

\* the extension of a stale cache's expiration
StaleExtension == 2 * 60 * 60 * 1000

\* the default refresh hour
DefaultRefreshHour == 15

\* devices[0].getSetting("priceRefreshHour") || 15, or 15 without devices
RefreshHour(devs) ==
    IF Len(devs) > 0
    THEN (IF devs[1].priceRefreshHour # 0 THEN devs[1].priceRefreshHour
          ELSE DefaultRefreshHour)
    ELSE DefaultRefreshHour

\* response.frames.filter(frame => frame.is_cheap !== null && frame.is_expensive !== null)
ValidFrames(frames) ==
    SelectSeq(frames, LAMBDA f : f.is_cheap # "null" /\ f.is_expensive # "null")

RECURSIVE SumPrices(_)
SumPrices(frames) ==
    IF Len(frames) = 0 THEN 0
    ELSE Head(frames).price_gross + SumPrices(Tail(frames))

\* _calculateDailyAverage(frames) at time t; 0 stands for the falsy results
\* (0 and null), which updateCache stores as null.
calculateDailyAverage(frames, t) ==
    LET todayFrames == SelectSeq(frames, LAMBDA f : LocalDate(f.start) = LocalDate(t))
    IN  IF Len(frames) = 0 THEN NullAvg
        ELSE IF Len(todayFrames) = 0 THEN NullAvg
        ELSE Rat(SumPrices(todayFrames), Len(todayFrames))

\* the expiration fetchFreshData computes at time t: the next occurrence of
\* the refresh hour
ExpiresAt(devs, t) ==
    IF GetHours(t) >= RefreshHour(devs)
    THEN SetHours(AddDay(t), RefreshHour(devs))
    ELSE SetHours(t, RefreshHour(devs))

\* fetchFreshData's catch block at time t
StaleFallback(c, t) ==
    LET staleData == getCachedData(c, t)
    IN  IF staleData # NullSnapshot
        THEN [threw |-> FALSE,
              data |-> [currentPrices |-> staleData.currentPrices,
                        dailyAverage |-> staleData.dailyAverage,
                        expiresAt |-> t + StaleExtension,
                        date |-> staleData.date,
                        isStale |-> TRUE]]
        ELSE [threw |-> TRUE]

\* fetchFreshData(apiKey), called at t0, its request settling with resp at t
fetchFreshData(resp, c, devs, t0, t) ==
    IF resp.kind = "ok"
    THEN LET validFrames == ValidFrames(resp.frames)
         IN  [threw |-> FALSE,
              data |-> [currentPrices |-> validFrames,
                        dailyAverage |->
                            IF resp.daily_average # 0
                            THEN Rat(resp.daily_average, 1)
                            ELSE calculateDailyAverage(validFrames, t),
                        expiresAt |-> ExpiresAt(devs, t),
                        date |-> LocalDate(t0),
                        isStale |-> FALSE]]
    ELSE StaleFallback(c, t)

CooldownActive_InSeconds(t, last) == t - last < CooldownPeriod \div 1000

\* the rate limit test of requestManualRefreshImmediate at time t
CooldownActive(t, last) == t - last < CooldownPeriod

remainingTime_RoundsDown(t, last) == (CooldownPeriod - (t - last)) \div 1000

\* the seconds named by the cooldown error:
\* Math.ceil((cooldownPeriod - (now - lastManualRefreshTime)) / 1000)
remainingTime(t, last) == (CooldownPeriod - (t - last) + 999) \div 1000

shouldRefresh_IgnoresManual(t) ==
    IF isRefreshing THEN FALSE
    ELSE IF ~isCacheValid(cache, t) THEN TRUE
    ELSE FALSE

\* shouldRefresh() at time t
shouldRefresh(t) ==
    IF isRefreshing THEN FALSE
    ELSE IF ~isCacheValid(cache, t) THEN TRUE
    ELSE IF manualRefreshRequested THEN TRUE
    ELSE FALSE

refreshBegin_NoGuard ==
    IF Len(devices) = 0 THEN "nodevices"
    ELSE IF devices[1].apiKey = "" THEN "noapikey"
    ELSE "fetching"

\* How refreshAllDevices proceeds up to its first await: "guarded" (line
\* 158), "nodevices", "noapikey" (early returns inside try), or "fetching".
refreshBegin ==
    IF isRefreshing THEN "guarded"
    ELSE IF Len(devices) = 0 THEN "nodevices"
    ELSE IF devices[1].apiKey = "" THEN "noapikey"
    ELSE "fetching"

refreshSettle_AlwaysFresh(fetched, c, t) ==
    IF fetched.threw
    THEN [cache |-> c, status |-> "error", updated |-> FALSE,
          payload |-> NullSnapshot, threw |-> FALSE]
    ELSE LET c2 == updateCache(c, fetched.data, t)
         IN  [cache |-> c2, status |-> "fresh", updated |-> TRUE,
              payload |-> getCachedData(c2, t), threw |-> FALSE]

refreshSettle_InvalidatesOnError(fetched, c, t) ==
    IF fetched.threw
    THEN [cache |-> EmptyCache, status |-> "error", updated |-> FALSE,
          payload |-> NullSnapshot, threw |-> FALSE]
    ELSE LET c2 == updateCache(c, fetched.data, t)
         IN  [cache |-> c2,
              status |-> IF fetched.data.isStale THEN "stale" ELSE "fresh",
              updated |-> TRUE,
              payload |-> getCachedData(c2, t),
              threw |-> FALSE]

\* The part of refreshAllDevices after the awaited fetch: the new cache, the
\* events emitted, and whether the error leaves refreshAllDevices.
refreshSettle(fetched, c, t) ==
    IF fetched.threw
    THEN [cache |-> c, status |-> "error", updated |-> FALSE,
          payload |-> NullSnapshot, threw |-> FALSE]
    ELSE LET c2 == updateCache(c, fetched.data, t)
         IN  [cache |-> c2,
              status |-> IF fetched.data.isStale THEN "stale" ELSE "fresh",
              updated |-> TRUE,
              payload |-> getCachedData(c2, t),
              threw |-> FALSE]

----------------------------------------------------------------------------
(* PstrykPriceDriver: timers *)

\* the delay of onInit's initial refresh
StartupDelay == 2000

\* the period of the fallback check
CheckInterval == 30 * 60 * 1000

\* the base delay of updatePrices' retries
RetryBaseDelay == 5000

\* the number of retries of updatePrices
MaxRetries == 3

NoRetry == [at |-> 0, retryCount |-> 0]

\* _scheduleNextRefresh() at time t: the deadline of the new timeout
scheduleNextRefresh(t) ==
    LET nextRefresh == SetHours(t, RefreshHour(devices))
    IN  IF t >= nextRefresh THEN AddDay(nextRefresh) ELSE nextRefresh

\* updatePrices' catch block: the retry it schedules at time t
scheduleRetry(threw, retryCount, t, pending) ==
    IF ~threw THEN pending
    ELSE IF retryCount < MaxRetries
         THEN [at |-> t + RetryBaseDelay * 2^retryCount, retryCount |-> retryCount + 1]
         ELSE pending

PendingDeadlines ==
    {d \in {startupTimer, refreshTimeout, cacheCheckInterval, retryTimer.at} : d # 0}

Due(d) == d # 0 /\ d <= now

\* The durations by which time advances; an advance stops at the next
\* pending timer deadline, where that timer fires first.
Steps == {CooldownPeriod - 1, CheckInterval}

NoManual == [result |-> "none", final |-> "none", remaining |-> 0]

----------------------------------------------------------------------------
(* Initial state: after the driver's onInit *)

\* the windows of the capabilities current_hour_in_cheapest (8),
\* current_hour_in_cheapest_4h, _12h, _24h and _36h
RankWindows == {4, 8, 12, 24, 36}

NoFlow == [card |-> "none", window |-> 0, outcome |-> "none"]
NoBlocks == [null |-> TRUE]
NoPosition == [hourWindow |-> 0, value |-> 0]
NoMergeCall == [called |-> FALSE, blocks |-> << >>, result |-> << >>]

\* the device's refresh timeouts are followed in TimerSpec only; elsewhere
\* the calls of updatePrices they make are steps of their own
NoTimers == [priceRefreshHour |-> 0, chains |-> << >>, deleted |-> FALSE, changes |-> 0]

\* PstrykPriceDevice after onInit: no frames fetched, capabilities unset
\* (an unset rank compares like 0, an unset flag like false),
\* _previousBlocks = null, _lastUsageCheck undefined
UsageOnInit ==
    /\ previousBlocks = NoBlocks
    /\ lastUsageCheck = 0
    /\ maximise_usage_now = FALSE
    /\ minimise_usage_now = FALSE
    /\ usageChecked = FALSE
    /\ priceRequest = "idle"
    /\ lastPriceUpdate = 0
    /\ mergeCall = NoMergeCall
    /\ deviceTimers = NoTimers

DeviceOnInit ==
    /\ deviceFrames = << >>
    /\ ranks = [w \in RankWindows |-> 0]
    /\ position = NoPosition
    /\ flowResult = NoFlow
    /\ UsageOnInit

NoData == [currentPrices |-> << >>, dailyAverage |-> NullAvg, expiresAt |-> 0,
           date |-> NullDate, isStale |-> FALSE]

Init ==
    /\ now \in StartTimes
    /\ devices \in Configs
    /\ deleted = FALSE
    /\ cache = EmptyCache
    /\ isRefreshing = FALSE
    /\ manualRefreshRequested = FALSE
    /\ lastManualRefreshTime = 0
    /\ inflight = << >>
    /\ startupTimer = now + StartupDelay
    /\ refreshTimeout = scheduleNextRefresh(now)
    /\ cacheCheckInterval = now + CheckInterval
    /\ retryTimer = NoRetry
    /\ lastStatus = "none"
    /\ lastManual = NoManual
    /\ installed = NoData
    /\ acceptedAt = 0
    /\ ticks = 0
    /\ updateCalls = 0
    /\ DeviceOnInit

----------------------------------------------------------------------------
(* Actions *)

\* Time passes.
Tick(d) ==
    /\ ticks < MaxTicks
    /\ \A p \in PendingDeadlines : p > now
    /\ now' = IF \E p \in PendingDeadlines : p < now + d
              THEN CHOOSE p \in PendingDeadlines : \A q \in PendingDeadlines : p <= q
              ELSE now + d
    /\ ticks' = ticks + 1
    /\ UNCHANGED <<device, devices, deleted, orchestrator, inflight, timers, lastStatus,
                   lastManual, installed, acceptedAt, updateCalls>>

Begin_LeavesGuardSet(caller, rc, mrr, rto) ==
    LET r == refreshBegin
    IN  /\ isRefreshing' = TRUE
        /\ manualRefreshRequested' = IF r = "guarded" THEN mrr ELSE FALSE
        /\ inflight' = IF r = "fetching"
                       THEN Append(inflight, [caller |-> caller, retryCount |-> rc,
                                              startedAt |-> now, cacheAtStart |-> cache])
                       ELSE inflight
        /\ refreshTimeout' = IF r # "fetching" /\ caller \in {"timeout", "interval"}
                             THEN scheduleNextRefresh(now)
                             ELSE rto

\* refreshAllDevices() up to its first await, called by `caller` with
\* manualRefreshRequested = mrr and the pending daily timeout rto; when it
\* returns at once, the caller's continuation runs in the same step.
Begin(caller, rc, mrr, rto) ==
    LET r == refreshBegin
    IN  /\ isRefreshing' = (r \in {"guarded", "fetching"})
        /\ manualRefreshRequested' = IF r = "guarded" THEN mrr ELSE FALSE
        /\ inflight' = IF r = "fetching"
                       THEN Append(inflight, [caller |-> caller, retryCount |-> rc,
                                              startedAt |-> now, cacheAtStart |-> cache])
                       ELSE inflight
        /\ refreshTimeout' = IF r # "fetching" /\ caller \in {"timeout", "interval"}
                             THEN scheduleNextRefresh(now)
                             ELSE rto

\* onInit's setTimeout(() => refreshAllDevices(), 2000) fires.
StartupFire ==
    /\ Due(startupTimer)
    /\ startupTimer' = 0
    /\ Begin("startup", 0, manualRefreshRequested, refreshTimeout)
    /\ UNCHANGED <<device, now, devices, deleted, cache, lastManualRefreshTime, cacheCheckInterval,
                   retryTimer, lastStatus, lastManual, installed, acceptedAt,
                   ticks, updateCalls>>

\* The daily timeout of _scheduleNextRefresh fires.
TimeoutFire ==
    /\ Due(refreshTimeout)
    /\ Begin("timeout", 0, manualRefreshRequested, 0)
    /\ UNCHANGED <<device, now, devices, deleted, cache, lastManualRefreshTime, startupTimer,
                   cacheCheckInterval, retryTimer, lastStatus, lastManual,
                   installed, acceptedAt, ticks, updateCalls>>

\* The 30-minute fallback check of _startCacheRefreshTimer fires.
IntervalFire ==
    /\ Due(cacheCheckInterval)
    /\ cacheCheckInterval' = now + CheckInterval
    /\ IF shouldRefresh(now)
       THEN Begin("interval", 0, manualRefreshRequested, refreshTimeout)
       ELSE UNCHANGED <<isRefreshing, manualRefreshRequested, inflight, refreshTimeout>>
    /\ UNCHANGED <<device, now, devices, deleted, cache, lastManualRefreshTime, startupTimer,
                   retryTimer, lastStatus, lastManual, installed, acceptedAt,
                   ticks, updateCalls>>

\* requestManualRefresh()
RequestManualRefresh ==
    /\ manualRefreshRequested' = TRUE
    /\ UNCHANGED <<device, now, devices, deleted, cache, isRefreshing, lastManualRefreshTime,
                   inflight, timers, lastStatus, lastManual, installed,
                   acceptedAt, ticks, updateCalls>>

RequestManualRefreshImmediate_CooldownOnFetch ==
    IF CooldownActive(now, lastManualRefreshTime)
    THEN /\ lastManual' = [result |-> "cooldown", final |-> "none",
                            remaining |-> remainingTime(now, lastManualRefreshTime)]
         /\ UNCHANGED <<device, now, devices, deleted, orchestrator, inflight, timers, lastStatus,
                        installed, acceptedAt, ticks, updateCalls>>
    ELSE /\ lastManualRefreshTime' = IF refreshBegin = "fetching" THEN now
                                     ELSE lastManualRefreshTime
         /\ acceptedAt' = now
         /\ lastStatus' = "refreshing"
         /\ Begin("manual", 0, TRUE, refreshTimeout)
         /\ lastManual' = [result |-> IF refreshBegin = "fetching" THEN "pending" ELSE "resolved",
                           final |-> "none", remaining |-> 0]
         /\ UNCHANGED <<device, now, devices, deleted, cache, startupTimer, cacheCheckInterval,
                        retryTimer, installed, ticks, updateCalls>>

\* requestManualRefreshImmediate(): rejected by the cooldown, or accepted
\* and run up to the await inside refreshAllDevices.
RequestManualRefreshImmediate ==
    IF CooldownActive(now, lastManualRefreshTime)
    THEN /\ lastManual' = [result |-> "cooldown", final |-> "none",
                            remaining |-> remainingTime(now, lastManualRefreshTime)]
         /\ UNCHANGED <<device, now, devices, deleted, orchestrator, inflight, timers, lastStatus,
                        installed, acceptedAt, ticks, updateCalls>>
    ELSE /\ lastManualRefreshTime' = now
         /\ acceptedAt' = now
         /\ lastStatus' = "refreshing"
         /\ Begin("manual", 0, TRUE, refreshTimeout)
         /\ lastManual' = [result |-> IF refreshBegin = "fetching" THEN "pending" ELSE "resolved",
                           final |-> "none", remaining |-> 0]
         /\ UNCHANGED <<device, now, devices, deleted, cache, startupTimer, cacheCheckInterval,
                        retryTimer, installed, ticks, updateCalls>>

\* updatePrices(retryCount): called from outside with 0, or by its retry timer.
UpdatePrices ==
    \E rc \in {0} \cup {retryTimer.retryCount} :
        /\ rc # 0 => Due(retryTimer.at)
        /\ rc = 0 => updateCalls < MaxUpdateCalls
        /\ updateCalls' = IF rc = 0 THEN updateCalls + 1 ELSE updateCalls
        /\ retryTimer' = IF rc # 0 THEN NoRetry ELSE retryTimer
        /\ Begin("updatePrices", rc, manualRefreshRequested, refreshTimeout)
        /\ UNCHANGED <<device, now, devices, deleted, cache, lastManualRefreshTime, startupTimer,
                       cacheCheckInterval, lastStatus, lastManual, installed,
                       acceptedAt, ticks>>

RemoveAt(seq, i) == SubSeq(seq, 1, i - 1) \o SubSeq(seq, i + 1, Len(seq))

\* The upstream request of inflight[i] settles with resp: fetchFreshData
\* returns or throws, refreshAllDevices runs to its end, and the suspended
\* caller continues.
FetchComplete(i, resp) ==
    LET req == inflight[i]
        fetched == fetchFreshData(resp, cache, devices, req.startedAt, now)
        s == refreshSettle(fetched, cache, now)
    IN  /\ cache' = s.cache
        /\ installed' = IF s.updated THEN fetched.data ELSE installed
        /\ lastStatus' = s.status
        /\ isRefreshing' = FALSE
        /\ inflight' = RemoveAt(inflight, i)
        /\ refreshTimeout' = IF req.caller \in {"timeout", "interval"}
                             THEN scheduleNextRefresh(now)
                             ELSE refreshTimeout
        /\ lastManual' = IF req.caller = "manual"
                         THEN [result |-> "resolved", final |-> s.status, remaining |-> 0]
                         ELSE lastManual
        /\ retryTimer' = IF req.caller = "updatePrices"
                         THEN scheduleRetry(s.threw, req.retryCount, now, retryTimer)
                         ELSE retryTimer
        /\ UNCHANGED <<device, now, devices, deleted, manualRefreshRequested, lastManualRefreshTime,
                       startupTimer, cacheCheckInterval, acceptedAt, ticks, updateCalls>>

Next ==
    \/ \E d \in Steps : Tick(d)
    \/ StartupFire
    \/ TimeoutFire
    \/ IntervalFire
    \/ RequestManualRefresh
    \/ RequestManualRefreshImmediate
    \/ UpdatePrices
    \/ \E i \in 1..Len(inflight) : \E resp \in Responses(inflight[i].startedAt) :
           FetchComplete(i, resp)

Spec == Init /\ [][Next]_vars

----------------------------------------------------------------------------
(* Steps named by the properties below *)

\* the request of inflight[i] fails (rejection or a body without frames)
\* and refreshAllDevices runs to its end
FetchFails(i) ==
    \E resp \in Responses(inflight[i].startedAt) :
        resp.kind # "ok" /\ FetchComplete(i, resp)

\* a refresh ends in failure: fetchFreshData throws into refreshAllDevices' catch
RefreshFails(i) ==
    \E resp \in Responses(inflight[i].startedAt) :
        /\ resp.kind # "ok"
        /\ fetchFreshData(resp, cache, devices, inflight[i].startedAt, now).threw
        /\ FetchComplete(i, resp)

\* a call of refreshAllDevices by a timer or by updatePrices
RefreshAllCalled == StartupFire \/ TimeoutFire \/ IntervalFire \/ UpdatePrices

\* a call of requestManualRefreshImmediate that passes the cooldown test
ImmediateAccepted ==
    RequestManualRefreshImmediate /\ ~CooldownActive(now, lastManualRefreshTime)

\* frames, dailyAverage, expiresAt and date of a cache, a snapshot or fetched data
Content(x) == <<x.currentPrices, x.dailyAverage, x.expiresAt, x.date>>

\* the cache object carries a staleness mark
IsMarkedStale(c) == "isStale" \in DOMAIN c /\ c.isStale

----------------------------------------------------------------------------
(* Properties *)

\* C1: at any time at most one upstream price request is in flight, whatever
\* combination of the daily timeout, the fallback check, the startup timer,
\* updatePrices and requestManualRefreshImmediate calls refreshAllDevices.
C1_SingleFlight == Len(inflight) <= 1

\* C1 witness: requestManualRefreshImmediate was accepted while another
\* caller's request was in flight, and that request is still the only one.
C1_ManualDuringFlight ==
    /\ Len(inflight) = 1
    /\ inflight[1].caller # "manual"
    /\ acceptedAt >= inflight[1].startedAt
    /\ lastManual.result = "resolved" /\ lastManual.final = "none"

\* C2: a requestManualRefreshImmediate call made less than 5 minutes after an
\* accepted one is rejected with the cooldown error, starts no upstream
\* request and is not itself accepted.
C2_CooldownRejects ==
    [][(/\ RequestManualRefreshImmediate
        /\ acceptedAt > 0
        /\ now - acceptedAt < 5 * MinuteMs)
       => (/\ lastManual'.result = "cooldown"
           /\ inflight' = inflight
           /\ acceptedAt' = acceptedAt)]_vars

\* C2 witness: a call was rejected 5 minutes less 1 ms after the accepted one.
C2_RejectedInsideCooldown ==
    /\ lastManual.result = "cooldown"
    /\ acceptedAt > 0
    /\ now - acceptedAt = 5 * MinuteMs - 1

\* C3 (as claimed): when the upstream fetch fails while the cache is valid,
\* the cache installed holds the prior frames, is marked isStale = true and
\* has expiresAt later than the current time.
C3_StaleCacheMarked ==
    [][\A i \in 1..Len(inflight) :
         (FetchFails(i) /\ isCacheValid(cache, now))
         => (/\ cache'.currentPrices = cache.currentPrices
             /\ cache'.expiresAt > now
             /\ IsMarkedStale(cache'))]_vars

\* C4 (as claimed): when the upstream request fails and the previous snapshot
\* is no longer valid, that snapshot is still served: the refresh reports
\* 'stale', keeps the frames and sets expiresAt to the failure time plus 2 hours.
C4_ExpiredSnapshotServed ==
    [][\A i \in 1..Len(inflight) :
         (/\ FetchFails(i)
          /\ Len(cache.currentPrices) > 0
          /\ ~isCacheValid(cache, now))
         => (/\ lastStatus' = "stale"
             /\ cache'.currentPrices = cache.currentPrices
             /\ cache'.expiresAt = now + 2 * HourMs)]_vars

\* C5 (as claimed): when the upstream fetch fails and no snapshot was ever
\* installed, the failure reaches updatePrices, which schedules its next
\* retry after 5 s * 2^retryCount.
C5_FailureReachesRetry ==
    [][\A i \in 1..Len(inflight) :
         (/\ FetchFails(i)
          /\ inflight[i].caller = "updatePrices"
          /\ inflight[i].retryCount < 3
          /\ ~cache.isValid)
         => retryTimer'.at = now + 5 * SecondMs * 2^(inflight[i].retryCount)]_vars

\* C6: the cache read returns a snapshot exactly when the cache's date is
\* today's local date, the current time is not later than expiresAt and the
\* frame list is non-empty; a cache dated an earlier day reads as null even
\* when its expiresAt is still ahead.
C6_ReadValidity ==
    /\ (getCachedData(cache, now) # NullSnapshot)
       <=> (/\ cache.date = now \div DayMs
            /\ now <= cache.expiresAt
            /\ Len(cache.currentPrices) > 0)
    /\ (cache.date # NullDate /\ cache.date < now \div DayMs)
       => getCachedData(cache, now) = NullSnapshot

\* C6 witness: a non-empty cache dated yesterday whose expiresAt is still ahead.
C6_YesterdayUnexpired ==
    /\ cache.date # NullDate
    /\ cache.date < now \div DayMs
    /\ now <= cache.expiresAt
    /\ Len(cache.currentPrices) > 0

\* C7: whenever the cache is read, also while a refresh is in flight, the
\* frames, dailyAverage, expiresAt and date of the snapshot are those of one
\* and the same installed refresh result.
C7_SnapshotOfOneGeneration ==
    getCachedData(cache, now) # NullSnapshot
    => Content(getCachedData(cache, now)) = Content(installed)

\* C7 witness: a snapshot is readable while a later refresh is in flight,
\* after a second refresh result (a stale fallback) replaced the first.
C7_ReadDuringRefresh ==
    /\ getCachedData(cache, now) # NullSnapshot
    /\ installed.isStale
    /\ Len(inflight) = 1

\* C8: when a refresh ends in failure, consumers get an 'error' status and the
\* cache's frames, dailyAverage, expiresAt and date are what they were when
\* that refresh started.
C8_FailureLeavesCache ==
    [][ Len(inflight') < Len(inflight) =>
          \A i \in 1..Len(inflight) :
              \/ (/\ lastStatus' = "error"
                  /\ Content(cache') = Content(inflight[i].cacheAtStart))
              \/ ~RefreshFails(i) ]_vars

\* C8 witness: a refresh failed while the cache held (expired) frames.
C8_FailedWithSnapshot ==
    /\ lastStatus = "error"
    /\ Len(cache.currentPrices) > 0
    /\ inflight = << >>

\* C9 (as claimed): a refresh request of any kind arriving while a fetch is in
\* flight starts no fetch and leaves the orchestrator's state unchanged.
C9_AnyRequestIsNoOp ==
    [][(/\ Len(inflight) > 0
        /\ (RefreshAllCalled \/ RequestManualRefresh \/ ImmediateAccepted))
       => UNCHANGED <<orchestrator, inflight>>]_vars

\* C9 (amended): while a fetch is in flight, a refreshAllDevices call by a
\* timer or by updatePrices leaves the orchestrator's state and the requests
\* in flight unchanged; requestManualRefresh and an accepted
\* requestManualRefreshImmediate start no fetch either, but leave
\* manualRefreshRequested set, and the latter restarts the cooldown.
C9_InFlightRequests ==
    [][Len(inflight) > 0
       => (/\ RefreshAllCalled => UNCHANGED <<orchestrator, inflight>>
           /\ RequestManualRefresh
              => (manualRefreshRequested' /\ UNCHANGED <<cache, isRefreshing, inflight>>)
           /\ ImmediateAccepted
              => (/\ manualRefreshRequested'
                  /\ lastManualRefreshTime' = now
                  /\ UNCHANGED <<cache, isRefreshing, inflight>>))]_vars

\* C9 witness: the daily timeout fired, and rescheduled itself for the next
\* day, while the startup refresh's request was still in flight.
C9_TimeoutDuringFlight ==
    /\ Len(inflight) = 1
    /\ inflight[1].caller = "startup"
    /\ refreshTimeout - inflight[1].startedAt > DayMs

\* C10 (as claimed): an accepted requestManualRefreshImmediate call, made
\* through a paired device, has been followed by a final status (fresh, stale
\* or error) when its promise settles.
C10_FinalStatusBeforeSettle ==
    (Len(devices) > 0 /\ lastManual.result = "resolved")
    => lastManual.final \in {"fresh", "stale", "error"}

\* C11: requestManualRefreshImmediate rejects exactly when the cooldown is
\* active, and then with an error naming the remaining wait in whole seconds,
\* between 1 and 300, that covers the rest of the cooldown; a rejection
\* emits no status and starts no fetch, and an accepted call whose upstream
\* request fails resolves with a status event, never with a cooldown error.
C11_CooldownErrorDistinct ==
    [][ /\ RequestManualRefreshImmediate =>
            IF now - lastManualRefreshTime < 5 * MinuteMs
            THEN /\ lastManual'.result = "cooldown"
                 /\ lastManual'.remaining \in 1..300
                 /\ lastManual'.remaining * SecondMs >= lastManualRefreshTime + 5 * MinuteMs - now
                 /\ (lastManual'.remaining - 1) * SecondMs < lastManualRefreshTime + 5 * MinuteMs - now
                 /\ lastStatus' = lastStatus
                 /\ inflight' = inflight
            ELSE lastManual'.result # "cooldown"
        /\ \A i \in 1..Len(inflight) :
              (FetchFails(i) /\ inflight[i].caller = "manual")
                  => (/\ lastManual'.result = "resolved"
                      /\ lastManual'.final \in {"error", "stale"}
                      /\ lastStatus' = lastManual'.final) ]_vars

\* an accepted call failed in transport, and a call one millisecond before
\* the end of its cooldown was rejected with one second left
C11_RejectedAfterTransportError ==
    /\ lastManual.result = "cooldown"
    /\ lastManual.remaining = 1
    /\ lastStatus = "error"
    /\ now - acceptedAt = 5 * MinuteMs - 1

\* C12: when a refresh installs data although its upstream request did not
\* succeed, the status emitted is 'stale'; 'fresh' is emitted only by a
\* refresh whose own request succeeded, and the data installed is then the
\* valid frames of that response.
C12_StaleNeverFresh ==
    [][ Len(inflight') < Len(inflight) =>
          \A i \in 1..Len(inflight) : \A resp \in Responses(inflight[i].startedAt) :
          \/ /\ \/ (lastStatus' = "stale" /\ installed'.isStale)
                \/ resp.kind = "ok"
                \/ fetchFreshData(resp, cache, devices, inflight[i].startedAt, now).threw
             /\ lastStatus' = "fresh"
                    => (/\ resp.kind = "ok"
                        /\ installed'.currentPrices = ValidFrames(resp.frames)
                        /\ cache'.currentPrices = ValidFrames(resp.frames))
          \/ ~FetchComplete(i, resp) ]_vars

\* a refresh whose request failed has installed the previous frames again
C12_StaleInstalled ==
    /\ lastStatus = "stale"
    /\ installed.isStale
    /\ cache.currentPrices = installed.currentPrices
    /\ Len(cache.currentPrices) > 0

----------------------------------------------------------------------------
(* PstrykPriceDevice: the ranking of the current hour                      *)
(*                                                                         *)
(* Prices are integers, in units of 0.0001 PLN/kWh.                        *)

\* the driver's variables, which the device's own specifications leave alone
driver == <<devices, deleted, orchestrator, inflight, timers, lastStatus, lastManual,
            installed, acceptedAt, ticks, updateCalls>>

\* the driver as constructed, with no paired device settings read
DriverOnInit ==
    /\ devices = << >>
    /\ deleted = FALSE
    /\ cache = EmptyCache
    /\ isRefreshing = FALSE
    /\ manualRefreshRequested = FALSE
    /\ lastManualRefreshTime = 0
    /\ inflight = << >>
    /\ startupTimer = 0
    /\ refreshTimeout = 0
    /\ cacheCheckInterval = 0
    /\ retryTimer = NoRetry
    /\ lastStatus = "none"
    /\ lastManual = NoManual
    /\ installed = NoData
    /\ acceptedAt = 0
    /\ ticks = 0
    /\ updateCalls = 0

\* the number of hourly frames of a price response
MaxFrames == 8

\* the prices a frame may carry
RankPrices == {1000, 2000}

\* the start of the first frame of a response: 10:00 local time
DeviceHour == 2 * DayMs + 10 * HourMs

\* the instants within a clock hour at which the device evaluates
MinuteOffsets == {0, 5 * MinuteMs, 30 * MinuteMs, 59 * MinuteMs}

\* now truncated to the start of its hour: setMinutes(0, 0, 0)
CurrentHourStart(t) == (t \div HourMs) * HourMs

\* The valid frames of a response: hourly, consecutive from t0, priced by
\* prices, the frame of index live flagged is_live (none when live = 0).
HourlyFrames(t0, prices, live) ==
    [i \in 1..Len(prices) |->
        [start |-> t0 + (i - 1) * HourMs, end |-> t0 + i * HourMs,
         price_gross |-> prices[i], is_live |-> (i = live)]]

\* the responses the ranking is applied to
RankResponses ==
    { HourlyFrames(DeviceHour, prices, live) :
        prices \in [1..MaxFrames -> RankPrices], live \in 0..MaxFrames }
    \cup { << >> }

\* validFrames.find((frame) => frame.is_live): its index, 0 when undefined
FindLive(frames) ==
    IF \E i \in 1..Len(frames) : frames[i].is_live
    THEN CHOOSE i \in 1..Len(frames) :
            frames[i].is_live /\ \A j \in 1..(i - 1) : ~frames[j].is_live
    ELSE 0

\* Array.prototype.sort with the comparator a.price_gross - b.price_gross
\* (ascending) or b.price_gross - a.price_gross: a stable sort
RECURSIVE InsertByPrice(_, _, _)
InsertByPrice(x, sorted, isAscending) ==
    IF Len(sorted) = 0 THEN << x >>
    ELSE IF (IF isAscending THEN x.price_gross < Head(sorted).price_gross
                            ELSE x.price_gross > Head(sorted).price_gross)
         THEN << x >> \o sorted
         ELSE << Head(sorted) >> \o InsertByPrice(x, Tail(sorted), isAscending)

RECURSIVE SortByPrice(_, _)
SortByPrice(frames, isAscending) ==
    IF Len(frames) = 0 THEN << >>
    ELSE InsertByPrice(frames[Len(frames)],
                       SortByPrice(SubSeq(frames, 1, Len(frames) - 1), isAscending),
                       isAscending)

\* findIndex((frame) => frame.start === start), counted from 0; -1 when absent
FindIndexByStart(frames, start) ==
    IF \E i \in 1..Len(frames) : frames[i].start = start
    THEN (CHOOSE i \in 1..Len(frames) :
            frames[i].start = start /\ \A j \in 1..(i - 1) : frames[j].start # start) - 1
    ELSE 0 - 1

\* framesWithCurrentHour of calculateCheapestHourRank at time t: the frames
\* starting in [now, now + hourWindow hours), and the current frame pushed
\* at the end when it is not among them
FramesWithCurrentHour(frames, t, hourWindow) ==
    LET currentFrame == frames[FindLive(frames)]
        windowEnd == t + hourWindow * HourMs
        windowFrames == SelectSeq(frames, LAMBDA f : f.start >= t /\ f.start < windowEnd)
    IN  IF \E i \in 1..Len(windowFrames) : windowFrames[i].start = currentFrame.start
        THEN windowFrames
        ELSE Append(windowFrames, currentFrame)

calculateCheapestHourRank_TieAware(frames, t, hourWindow) ==
    IF FindLive(frames) = 0 THEN 0
    ELSE LET currentFrame == frames[FindLive(frames)]
             ranked == FramesWithCurrentHour(frames, t, hourWindow)
             cheaper == Cardinality({i \in 1..Len(ranked) :
                            ranked[i].price_gross < currentFrame.price_gross})
         IN  IF cheaper <= 2 THEN cheaper + 1 ELSE 0

calculateCheapestHourRank_TopFour(frames, t, hourWindow) ==
    IF FindLive(frames) = 0 THEN 0
    ELSE LET currentFrame == frames[FindLive(frames)]
             sortedFrames == SortByPrice(FramesWithCurrentHour(frames, t, hourWindow), TRUE)
             currentFrameIndex == FindIndexByStart(sortedFrames, currentFrame.start)
         IN  IF currentFrameIndex <= 3 THEN currentFrameIndex + 1 ELSE 0

calculateCheapestHourRank_RanksWithoutCurrent(frames, t, hourWindow) ==
    IF FindLive(frames) = 0 THEN 1
    ELSE LET currentFrame == frames[FindLive(frames)]
             sortedFrames == SortByPrice(FramesWithCurrentHour(frames, t, hourWindow), TRUE)
             currentFrameIndex == FindIndexByStart(sortedFrames, currentFrame.start)
         IN  IF currentFrameIndex = 0 THEN 1
             ELSE IF currentFrameIndex = 1 THEN 2
             ELSE IF currentFrameIndex = 2 THEN 3
             ELSE 0

\* calculateCheapestHourRank(hourWindow) inside getCurrentPrice, evaluated
\* at time t over validFrames = frames
calculateCheapestHourRank(frames, t, hourWindow) ==
    IF FindLive(frames) = 0 THEN 0
    ELSE LET currentFrame == frames[FindLive(frames)]
             sortedFrames == SortByPrice(FramesWithCurrentHour(frames, t, hourWindow), TRUE)
             currentFrameIndex == FindIndexByStart(sortedFrames, currentFrame.start)
         IN  IF currentFrameIndex = 0 THEN 1
             ELSE IF currentFrameIndex = 1 THEN 2
             ELSE IF currentFrameIndex = 2 THEN 3
             ELSE 0

\* The frames _calculateTiedPosition ranks at time t: those starting at or
\* after the start of the current hour and before now + hourWindow hours.
TiedWindow(frames, t, hourWindow) ==
    LET currentHourStart == CurrentHourStart(t)
        windowEnd == t + hourWindow * HourMs
    IN  SelectSeq(frames, LAMBDA f : f.start >= currentHourStart /\ f.start < windowEnd)

\* the frame of the current hour among the ranked frames, 0 when there is none
CurrentHourFrame(filtered, t) ==
    FindIndexByStart(filtered, CurrentHourStart(t)) + 1

calculateTiedPricePosition_CountsTied(frames, t, hourWindow) ==
    IF Len(frames) = 0 THEN hourWindow
    ELSE LET filtered == TiedWindow(frames, t, hourWindow)
             current == CurrentHourFrame(filtered, t)
         IN  IF current = 0 THEN hourWindow
             ELSE Cardinality({i \in 1..Len(filtered) :
                      filtered[i].price_gross <= filtered[current].price_gross})

\* calculateTiedPricePosition(hourWindow) at time t: frames of equal price
\* form one tier, tiers are numbered from 1 in ascending order of price, and
\* the result is the number of the current hour's tier (1 stands for 1.0);
\* without frames or without a frame for the current hour it is hourWindow.
calculateTiedPricePosition(frames, t, hourWindow) ==
    IF Len(frames) = 0 THEN hourWindow
    ELSE LET filtered == TiedWindow(frames, t, hourWindow)
             current == CurrentHourFrame(filtered, t)
             tiers == {filtered[i].price_gross : i \in 1..Len(filtered)}
         IN  IF current = 0 THEN hourWindow
             ELSE Cardinality({p \in tiers : p < filtered[current].price_gross}) + 1

\* the windows a tied position is asked for
TiedWindows == {4, 8, 12}

\* the instants at which the ranking is first evaluated: within the hour of
\* the first frame, half an hour before it, and in the hour of the second
RankTimes ==
    {DeviceHour + off : off \in MinuteOffsets}
    \cup {DeviceHour - 30 * MinuteMs, DeviceHour + HourMs + 30 * MinuteMs}

RankInit ==
    /\ DriverOnInit
    /\ now \in RankTimes
    /\ deviceFrames \in RankResponses
    /\ ranks = [w \in RankWindows |-> 0]
    /\ position = NoPosition
    /\ flowResult = NoFlow
    /\ UsageOnInit

\* getCurrentPrice computes the five ranks, and updatePrices stores them in
\* the capabilities current_hour_in_cheapest, _4h, _12h, _24h and _36h.
UpdateCheapestHourRanks ==
    /\ ranks' = [w \in RankWindows |-> calculateCheapestHourRank(deviceFrames, now, w)]
    /\ UNCHANGED <<now, driver, deviceFrames, position, flowResult, usage>>

\* calculateTiedPricePosition(hourWindow) is called.
CalculateTiedPricePosition(hourWindow) ==
    /\ position' = [hourWindow |-> hourWindow,
                    value |-> calculateTiedPricePosition(deviceFrames, now, hourWindow)]
    /\ UNCHANGED <<now, driver, deviceFrames, ranks, flowResult, usage>>

\* Time passes within the clock hour.
MinuteTick ==
    /\ \E off \in MinuteOffsets :
          /\ CurrentHourStart(now) + off > now
          /\ now' = CurrentHourStart(now) + off
    /\ UNCHANGED <<driver, device>>

RankNext ==
    \/ UpdateCheapestHourRanks
    \/ \E hourWindow \in TiedWindows : CalculateTiedPricePosition(hourWindow)
    \/ MinuteTick

RankSpec == RankInit /\ [][RankNext]_vars

----------------------------------------------------------------------------
(* Properties of the ranking *)

\* a step that computes the five ranks
RanksUpdated == now' = now /\ position' = position /\ UpdateCheapestHourRanks

\* a step that computes the tied position for hourWindow
PositionCalculated(hourWindow) ==
    now' = now /\ ranks' = ranks /\ CalculateTiedPricePosition(hourWindow)

\* the frames with the frame of index i as the current (is_live) one
WithLive(frames, i) ==
    [j \in 1..Len(frames) |-> [frames[j] EXCEPT !.is_live = (j = i)]]

C15_SameWithinHour ==
    [][ MinuteTick =>
          \A hw \in TiedWindows :
              calculateTiedPricePosition(deviceFrames, now', hw)
                  = calculateTiedPricePosition(deviceFrames, now, hw) ]_vars

\* C16: when the 8-hour window holds 8 frames tied at one price, at most 3
\* of them get a nonzero calculateCheapestHourRank(8) when each in turn is
\* the current frame.
C16_TieBlindTopThree ==
    LET w == {i \in 1..Len(deviceFrames) :
                /\ deviceFrames[i].start >= now
                /\ deviceFrames[i].start < now + 8 * HourMs}
    IN  (/\ Cardinality(w) = 8
         /\ \A i, j \in w : deviceFrames[i].price_gross = deviceFrames[j].price_gross)
            => Cardinality({i \in w :
                   calculateCheapestHourRank(WithLive(deviceFrames, i), now, 8) # 0}) <= 3

\* eight frames tied at the minimum fill the 8-hour window, and the third
\* of them was ranked as the current frame
C16_ThirdOfEightTied ==
    /\ Len(deviceFrames) = MaxFrames
    /\ now = DeviceHour
    /\ \A i \in 1..8 : deviceFrames[i].price_gross = 1000
    /\ FindLive(deviceFrames) = 3
    /\ ranks[8] = 3

PriceDiffThreshold == 10

\* at most 3 blocks per direction
MaxBlocks == 3

\* a block is extended up to 6 frames
MaxBlockFrames == 6

\* blocks at most 2 hours apart are candidates for a merge
MergeGap == 7200000

\* the usage-period check is throttled to once per 30 seconds
UsageCheckThrottle == 30000

\* updatePrices keeps its results for 5 minutes
PriceCacheTime == 300000

\* findOptimalPeriods looks 36 hours ahead
PeriodHorizon == 36

AbsDiff(a, b) == IF a >= b THEN a - b ELSE b - a

Max(a, b) == IF a >= b THEN a ELSE b

\* the block seeded with startFrame
NewBlock(startFrame) ==
    [startTime |-> startFrame.start, endTime |-> startFrame.end,
     frames |-> << startFrame >>]

\* frame.price_gross === block.avgPrice
PriceEqualsAvg(frame, block) ==
    frame.price_gross * Len(block.frames) = SumPrices(block.frames)

\* priceDiff <= block.avgPrice * priceDiffThreshold, in exact arithmetic
WithinThreshold(frame, block) ==
    AbsDiff(frame.price_gross * Len(block.frames), SumPrices(block.frames)) * 100
        <= SumPrices(block.frames) * PriceDiffThreshold

\* the forEach that keeps the first candidate of least timeDiff: its index
BestByTime(cands, lastFrameEnd) ==
    CHOOSE i \in 1..Len(cands) :
        /\ \A j \in 1..(i - 1) :
              AbsDiff(cands[j].start, lastFrameEnd) > AbsDiff(cands[i].start, lastFrameEnd)
        /\ \A j \in (i + 1)..Len(cands) :
              AbsDiff(cands[j].start, lastFrameEnd) >= AbsDiff(cands[i].start, lastFrameEnd)

\* availableFrames.splice(findIndex(f => f.start === start), 1)
RemoveByStart(frames, start) ==
    LET k == FindIndexByStart(frames, start) + 1
    IN  IF k = 0 THEN frames
        ELSE SubSeq(frames, 1, k - 1) \o SubSeq(frames, k + 1, Len(frames))

\* the inner while loop of findOptimalBlocks: extend the block with an
\* adjacent frame of the same price, else of a price within the threshold,
\* until none is left or the block has 6 frames
RECURSIVE ExtendBlock(_, _)
ExtendBlock_NoCap(block, availableFrames) ==
    LET lastFrameEnd == block.frames[Len(block.frames)].end
        adjacentFrames ==
            SelectSeq(availableFrames,
                      LAMBDA f : \/ f.start = lastFrameEnd
                                 \/ f.start = lastFrameEnd - HourMs)
        exact == SelectSeq(adjacentFrames, LAMBDA f : PriceEqualsAvg(f, block))
        near == SelectSeq(adjacentFrames, LAMBDA f : WithinThreshold(f, block))
        cands == IF Len(exact) > 0 THEN exact ELSE near
    IN  IF Len(cands) = 0
        THEN [block |-> block, availableFrames |-> availableFrames]
        ELSE LET bestFrame == cands[BestByTime(cands, lastFrameEnd)]
                 grown ==
                     IF bestFrame.start >= lastFrameEnd
                     THEN [block EXCEPT !.frames = Append(@, bestFrame),
                                        !.endTime = bestFrame.end]
                     ELSE [block EXCEPT !.frames = << bestFrame >> \o @,
                                        !.startTime = bestFrame.start]
             IN  ExtendBlock(grown, RemoveByStart(availableFrames, bestFrame.start))

ExtendBlock(block, availableFrames) ==
    IF Len(block.frames) >= MaxBlockFrames
    THEN [block |-> block, availableFrames |-> availableFrames]
    ELSE LET lastFrameEnd == block.frames[Len(block.frames)].end
             adjacentFrames ==
                 SelectSeq(availableFrames,
                           LAMBDA f : \/ f.start = lastFrameEnd
                                      \/ f.start = lastFrameEnd - HourMs)
             exact == SelectSeq(adjacentFrames, LAMBDA f : PriceEqualsAvg(f, block))
             near == SelectSeq(adjacentFrames, LAMBDA f : WithinThreshold(f, block))
             cands == IF Len(exact) > 0 THEN exact ELSE near
         IN  IF Len(cands) = 0
             THEN [block |-> block, availableFrames |-> availableFrames]
             ELSE LET bestFrame == cands[BestByTime(cands, lastFrameEnd)]
                      grown ==
                          IF bestFrame.start >= lastFrameEnd
                          THEN [block EXCEPT !.frames = Append(@, bestFrame),
                                             !.endTime = bestFrame.end]
                          ELSE [block EXCEPT !.frames = << bestFrame >> \o @,
                                             !.startTime = bestFrame.start]
                  IN  ExtendBlock(grown, RemoveByStart(availableFrames, bestFrame.start))

\* a frame overlaps the block: it is removed from availableFrames
OverlapsBlock(f, block) ==
    \/ f.start >= block.startTime /\ f.start < block.endTime
    \/ f.end > block.startTime /\ f.end <= block.endTime

\* the outer while loop of findOptimalBlocks
RECURSIVE FindBlocksLoop(_, _, _)
FindBlocksLoop(availableFrames, blocks, processedFrames) ==
    IF Len(availableFrames) = 0 \/ Len(blocks) >= MaxBlocks THEN blocks
    ELSE LET startFrame == Head(availableFrames)
             rest == Tail(availableFrames)
         IN  IF startFrame.start \in processedFrames
             THEN FindBlocksLoop(rest, blocks, processedFrames)
             ELSE LET ext == ExtendBlock(NewBlock(startFrame), rest)
                      block == ext.block
                      remaining == SelectSeq(ext.availableFrames,
                                             LAMBDA f : ~OverlapsBlock(f, block))
                  IN  FindBlocksLoop(remaining, Append(blocks, block),
                          processedFrames
                              \cup {block.frames[i].start : i \in 1..Len(block.frames)})

\* findOptimalBlocks(frames, isAscending)
findOptimalBlocks(frames, isAscending) ==
    FindBlocksLoop(SortByPrice(frames, isAscending), << >>, {})

\* [...blocks].sort((a, b) => new Date(a.startTime) - new Date(b.startTime))
RECURSIVE InsertByStartTime(_, _)
InsertByStartTime(x, sorted) ==
    IF Len(sorted) = 0 THEN << x >>
    ELSE IF x.startTime < Head(sorted).startTime THEN << x >> \o sorted
         ELSE << Head(sorted) >> \o InsertByStartTime(x, Tail(sorted))

RECURSIVE SortByStartTime(_)
SortByStartTime(blocks) ==
    IF Len(blocks) = 0 THEN << >>
    ELSE InsertByStartTime(blocks[Len(blocks)],
                           SortByStartTime(SubSeq(blocks, 1, Len(blocks) - 1)))

\* [...a.frames, ...b.frames].sort(by start), then the first frame of
\* each start time is kept
RECURSIVE InsertFrameByStart(_, _)
InsertFrameByStart(x, sorted) ==
    IF Len(sorted) = 0 THEN << x >>
    ELSE IF x.start < Head(sorted).start THEN << x >> \o sorted
         ELSE << Head(sorted) >> \o InsertFrameByStart(x, Tail(sorted))

RECURSIVE SortFramesByStart(_)
SortFramesByStart(frames) ==
    IF Len(frames) = 0 THEN << >>
    ELSE InsertFrameByStart(frames[Len(frames)],
                            SortFramesByStart(SubSeq(frames, 1, Len(frames) - 1)))

RECURSIVE UniqueFrames(_, _)
UniqueFrames(frames, frameStartTimes) ==
    IF Len(frames) = 0 THEN << >>
    ELSE IF Head(frames).start \in frameStartTimes
         THEN UniqueFrames(Tail(frames), frameStartTimes)
         ELSE << Head(frames) >>
                  \o UniqueFrames(Tail(frames), frameStartTimes \cup {Head(frames).start})

\* |a.avgPrice - b.avgPrice| < 0.0001, one price unit
SamePriceGroup(a, b) ==
    AbsDiff(SumPrices(a.frames) * Len(b.frames), SumPrices(b.frames) * Len(a.frames))
        < Len(a.frames) * Len(b.frames)

\* a.avgPrice < b.avgPrice
AvgLess(a, b) ==
    SumPrices(a.frames) * Len(b.frames) < SumPrices(b.frames) * Len(a.frames)

\* The averages are IEEE doubles in the code. The comparisons are modelled
\* in exact arithmetic, which agrees with the doubles except where the two
\* sides are equal as decimals. DoubleRoundsBelow lists the pairs
\* (currentBlock.avgPrice, nextBlock.avgPrice), in price units, of that kind
\* for which the doubles give priceDiff < avgPrice * mergeThreshold:
\* |0.1 - 0.105| is 0.00499999999999999 and 0.1 * 0.05 is 0.005000000000000001.
DoubleRoundsBelow == { <<1000, 1050>> }

ShouldMerge_FullThreshold(currentBlock, nextBlock) ==
    /\ nextBlock.startTime - currentBlock.endTime <= MergeGap
    /\ \/ AbsDiff(SumPrices(currentBlock.frames) * Len(nextBlock.frames),
                  SumPrices(nextBlock.frames) * Len(currentBlock.frames)) * 100
            < SumPrices(currentBlock.frames) * Len(nextBlock.frames) * PriceDiffThreshold
       \/ SamePriceGroup(currentBlock, nextBlock)

\* the merge condition of mergeBlocks: the next block starts at most 2 hours
\* after the current one ends, and the average prices differ by less than
\* half the threshold of the current block's average, or by less than 0.0001
ShouldMerge(currentBlock, nextBlock) ==
    /\ nextBlock.startTime - currentBlock.endTime <= MergeGap
    /\ \/ AbsDiff(SumPrices(currentBlock.frames) * Len(nextBlock.frames),
                  SumPrices(nextBlock.frames) * Len(currentBlock.frames)) * 200
            < SumPrices(currentBlock.frames) * Len(nextBlock.frames) * PriceDiffThreshold
       \/ \E pair \in DoubleRoundsBelow :
             /\ SumPrices(currentBlock.frames) = pair[1] * Len(currentBlock.frames)
             /\ SumPrices(nextBlock.frames) = pair[2] * Len(nextBlock.frames)
       \/ SamePriceGroup(currentBlock, nextBlock)

\* the merged block: startTime of the current block, the later endTime,
\* the frames of both in chronological order without duplicates
MergeTwo(currentBlock, nextBlock) ==
    [startTime |-> currentBlock.startTime,
     endTime |-> Max(currentBlock.endTime, nextBlock.endTime),
     frames |-> UniqueFrames(SortFramesByStart(currentBlock.frames \o nextBlock.frames), {})]

\* the for loop of mergeBlocks
RECURSIVE MergeLoop(_, _, _)
MergeLoop(sortedBlocks, currentBlock, merged) ==
    IF Len(sortedBlocks) = 0 THEN Append(merged, currentBlock)
    ELSE LET nextBlock == Head(sortedBlocks)
         IN  IF ShouldMerge(currentBlock, nextBlock)
             THEN MergeLoop(Tail(sortedBlocks), MergeTwo(currentBlock, nextBlock), merged)
             ELSE MergeLoop(Tail(sortedBlocks), nextBlock, Append(merged, currentBlock))

\* the final sort of mergeBlocks: within one price group the longer block
\* first, otherwise the lower average price first
BlockBefore(a, b) ==
    IF SamePriceGroup(a, b) THEN Len(a.frames) > Len(b.frames) ELSE AvgLess(a, b)

RECURSIVE InsertBlockByRank(_, _)
InsertBlockByRank(x, sorted) ==
    IF Len(sorted) = 0 THEN << x >>
    ELSE IF BlockBefore(x, Head(sorted)) THEN << x >> \o sorted
         ELSE << Head(sorted) >> \o InsertBlockByRank(x, Tail(sorted))

RECURSIVE SortBlocksByRank(_)
SortBlocksByRank(blocks) ==
    IF Len(blocks) = 0 THEN << >>
    ELSE InsertBlockByRank(blocks[Len(blocks)],
                           SortBlocksByRank(SubSeq(blocks, 1, Len(blocks) - 1)))

mergeBlocks_NoSlice(blocks) ==
    IF Len(blocks) = 0 THEN << >>
    ELSE LET sortedBlocks == SortByStartTime(blocks)
             merged == MergeLoop(Tail(sortedBlocks), Head(sortedBlocks), << >>)
         IN  SortBlocksByRank(merged)

\* mergeBlocks(blocks)
mergeBlocks(blocks) ==
    IF Len(blocks) = 0 THEN << >>
    ELSE LET sortedBlocks == SortByStartTime(blocks)
             merged == MergeLoop(Tail(sortedBlocks), Head(sortedBlocks), << >>)
             ranked == SortBlocksByRank(merged)
         IN  SubSeq(ranked, 1, IF Len(ranked) < MaxBlocks THEN Len(ranked) ELSE MaxBlocks)

\* futureFrames of findOptimalPeriods at time t
FutureFrames(frames, t) ==
    SelectSeq(frames, LAMBDA f : f.end > t /\ f.start < t + PeriodHorizon * HourMs)

PeriodBlocks_KeepsEnded(frames, t, isAscending, previous) ==
    LET found == findOptimalBlocks(FutureFrames(frames, t), isAscending)
    IN  IF Len(previous) > 0 THEN mergeBlocks(previous \o found) ELSE found

\* the blocks of one direction that findOptimalPeriods stores at time t:
\* the new blocks, merged with the previous blocks that have not ended
\* when there are any
PeriodBlocks(frames, t, isAscending, previous) ==
    LET found == findOptimalBlocks(FutureFrames(frames, t), isAscending)
        validPrevious == SelectSeq(previous, LAMBDA b : b.endTime > t)
    IN  IF Len(validPrevious) > 0 THEN mergeBlocks(validPrevious \o found) ELSE found

\* _previousBlocks after findOptimalPeriods(frames) at time t; it is left
\* alone when there is no future frame
findOptimalPeriods(frames, t, previous) ==
    IF Len(FutureFrames(frames, t)) = 0 THEN previous
    ELSE [null |-> FALSE,
          cheapBlocks |->
              PeriodBlocks(frames, t, TRUE,
                           IF previous.null THEN << >> ELSE previous.cheapBlocks),
          expensiveBlocks |->
              PeriodBlocks(frames, t, FALSE,
                           IF previous.null THEN << >> ELSE previous.expensiveBlocks)]

InAnyBlock_ExclusiveEnd(blocks, t) ==
    \E i \in 1..Len(blocks) : t >= blocks[i].startTime /\ t < blocks[i].endTime

\* blocks.some(block => now >= blockStart && now <= blockEnd)
InAnyBlock(blocks, t) ==
    \E i \in 1..Len(blocks) : t >= blocks[i].startTime /\ t <= blocks[i].endTime

\* checkCurrentUsagePeriod() at time t: what it leaves in _lastUsageCheck
\* and in the two capabilities, and whether it got past the throttle
checkCurrentUsagePeriod(previous, last, maximise, minimise, t) ==
    IF last # 0 /\ t - last < UsageCheckThrottle
    THEN [lastUsageCheck |-> last, maximise |-> maximise, minimise |-> minimise,
          checked |-> FALSE]
    ELSE [lastUsageCheck |-> t,
          maximise |-> IF previous.null THEN FALSE ELSE InAnyBlock(previous.cheapBlocks, t),
          minimise |-> IF previous.null THEN FALSE
                       ELSE InAnyBlock(previous.expensiveBlocks, t),
          checked |-> TRUE]

\* the number of hourly frames the pricing API serves
MaxPeriodFrames == 3

\* the prices of those frames, in units of 0.0001 PLN
PeriodPrices == {1000, 1080, 1160}

\* the instants within a clock hour at which the device acts
PeriodOffsets == {0, 10 * SecondMs, 40 * SecondMs}

\* the last instant considered: the end of the last frame
PeriodEnd == DeviceHour + MaxPeriodFrames * HourMs

\* the frames the pricing API serves during one behaviour
PeriodResponses ==
    { HourlyFrames(DeviceHour, prices, 0) : prices \in [1..MaxPeriodFrames -> PeriodPrices] }

\* the API flags the frame that contains the time of the request
WithLiveAt(frames, t) ==
    [j \in 1..Len(frames) |->
        [frames[j] EXCEPT !.is_live = (frames[j].start <= t /\ t < frames[j].end)]]

\* the next instant at which the device acts
NextInstant(t) ==
    LET later == {CurrentHourStart(t) + off : off \in PeriodOffsets \cup {HourMs}}
    IN  CHOOSE x \in later : x > t /\ \A y \in later : y > t => x <= y

\* updatePrices returns at once: results younger than 5 minutes, outside
\* the first 5 minutes of the refresh hour
PricesCached(t, last) ==
    /\ t - last < PriceCacheTime
    /\ ~(GetHours(t) = DefaultRefreshHour /\ (t % HourMs) < 5 * MinuteMs)

PeriodInit ==
    /\ DriverOnInit
    /\ now = DeviceHour
    /\ deviceFrames \in PeriodResponses
    /\ ranks = [w \in RankWindows |-> 0]
    /\ position = NoPosition
    /\ flowResult = NoFlow
    /\ UsageOnInit

\* updatePrices() up to its first await: the 5-minute cache, the initial
\* checkCurrentUsagePeriod when blocks are stored, _lastPriceUpdate, and
\* the request to the pricing API.
UpdatePricesBegin ==
    /\ priceRequest = "idle"
    /\ ~PricesCached(now, lastPriceUpdate)
    /\ LET check == checkCurrentUsagePeriod(previousBlocks, lastUsageCheck,
                                            maximise_usage_now, minimise_usage_now, now)
       IN  IF previousBlocks.null
           THEN /\ usageChecked' = FALSE
                /\ UNCHANGED <<lastUsageCheck, maximise_usage_now, minimise_usage_now>>
           ELSE /\ lastUsageCheck' = check.lastUsageCheck
                /\ maximise_usage_now' = check.maximise
                /\ minimise_usage_now' = check.minimise
                /\ usageChecked' = check.checked
    /\ lastPriceUpdate' = now
    /\ priceRequest' = "pending"
    /\ UNCHANGED <<now, driver, deviceFrames, ranks, position, flowResult, previousBlocks,
                   mergeCall, deviceTimers>>

\* The pricing API answers: getCurrentPrice computes the ranks and calls
\* findOptimalPeriods, which stores the blocks and calls
\* checkCurrentUsagePeriod unless there was no future frame; updatePrices
\* then sets the rank capabilities.
UpdatePricesResponse ==
    /\ priceRequest = "pending"
    /\ LET validFrames == WithLiveAt(deviceFrames, now)
           stored == findOptimalPeriods(deviceFrames, now, previousBlocks)
           check == checkCurrentUsagePeriod(stored, lastUsageCheck,
                                            maximise_usage_now, minimise_usage_now, now)
       IN  /\ ranks' = [w \in RankWindows |-> calculateCheapestHourRank(validFrames, now, w)]
           /\ previousBlocks' = stored
           /\ IF Len(FutureFrames(deviceFrames, now)) = 0
              THEN /\ usageChecked' = FALSE
                   /\ UNCHANGED <<lastUsageCheck, maximise_usage_now, minimise_usage_now>>
              ELSE /\ lastUsageCheck' = check.lastUsageCheck
                   /\ maximise_usage_now' = check.maximise
                   /\ minimise_usage_now' = check.minimise
                   /\ usageChecked' = check.checked
    /\ priceRequest' = "idle"
    /\ UNCHANGED <<now, driver, deviceFrames, position, flowResult, lastPriceUpdate,
                   mergeCall, deviceTimers>>

\* The request fails: updatePrices logs the error in its catch block.
UpdatePricesFails ==
    /\ priceRequest = "pending"
    /\ priceRequest' = "idle"
    /\ usageChecked' = FALSE
    /\ UNCHANGED <<now, driver, deviceFrames, ranks, position, flowResult, previousBlocks,
                   lastUsageCheck, maximise_usage_now, minimise_usage_now, lastPriceUpdate,
                   mergeCall, deviceTimers>>

\* The usage-check interval of onInit fires: checkCurrentUsagePeriod().
UsageCheckInterval ==
    /\ LET check == checkCurrentUsagePeriod(previousBlocks, lastUsageCheck,
                                            maximise_usage_now, minimise_usage_now, now)
       IN  /\ lastUsageCheck' = check.lastUsageCheck
           /\ maximise_usage_now' = check.maximise
           /\ minimise_usage_now' = check.minimise
           /\ usageChecked' = check.checked
    /\ UNCHANGED <<now, driver, deviceFrames, ranks, position, flowResult, previousBlocks,
                   priceRequest, lastPriceUpdate, mergeCall, deviceTimers>>

\* Time passes to the next instant at which the device acts.
PeriodTick ==
    /\ NextInstant(now) <= PeriodEnd
    /\ now' = NextInstant(now)
    /\ usageChecked' = FALSE
    /\ UNCHANGED <<driver, deviceFrames, ranks, position, flowResult, previousBlocks,
                   lastUsageCheck, maximise_usage_now, minimise_usage_now,
                   priceRequest, lastPriceUpdate, mergeCall, deviceTimers>>

PeriodNext ==
    \/ UpdatePricesBegin
    \/ UpdatePricesResponse
    \/ UpdatePricesFails
    \/ UsageCheckInterval
    \/ PeriodTick

PeriodSpec == PeriodInit /\ [][PeriodNext]_vars

\* two blocks whose time ranges share more than an instant
Intersect(a, b) == a.startTime < b.endTime /\ b.startTime < a.endTime

\* no two blocks of the list intersect
Disjoint(blocks) ==
    \A i, j \in 1..Len(blocks) : i # j => ~Intersect(blocks[i], blocks[j])

\* C13: no two blocks of the stored cheap list and no two blocks of the
\* stored expensive list have intersecting time ranges, after any sequence
\* of price updates.
C13_BlocksDisjoint ==
    ~previousBlocks.null =>
        Disjoint(previousBlocks.cheapBlocks) /\ Disjoint(previousBlocks.expensiveBlocks)

\* C20: after a usage-period check that got past the throttle,
\* maximise_usage_now holds exactly when now lies in [startTime, endTime]
\* of a stored cheap block, and minimise_usage_now likewise for the stored
\* expensive blocks (both false while no blocks are stored).
C20_FlagsFollowBlocks ==
    usageChecked =>
        /\ maximise_usage_now
             = (/\ ~previousBlocks.null
                /\ \E i \in 1..Len(previousBlocks.cheapBlocks) :
                      /\ previousBlocks.cheapBlocks[i].startTime <= now
                      /\ now <= previousBlocks.cheapBlocks[i].endTime)
        /\ minimise_usage_now
             = (/\ ~previousBlocks.null
                /\ \E i \in 1..Len(previousBlocks.expensiveBlocks) :
                      /\ previousBlocks.expensiveBlocks[i].startTime <= now
                      /\ now <= previousBlocks.expensiveBlocks[i].endTime)

\* a check performed at the very end instant of a cheap block that no
\* other cheap block covers
C20_CheckedAtBlockEnd ==
    /\ usageChecked
    /\ ~previousBlocks.null
    /\ maximise_usage_now
    /\ \A i \in 1..Len(previousBlocks.cheapBlocks) :
          ~(/\ previousBlocks.cheapBlocks[i].startTime <= now
            /\ now < previousBlocks.cheapBlocks[i].endTime)

\* ---------------------------------------------------------------------
\* The flow conditions built on the rankings
\* ---------------------------------------------------------------------

\* the number of hourly frames of a response when flow conditions run
MaxFlowFrames == 3

\* the rank argument of the is_current_hour_in_cheapest cards
RankArgs == {"any3", "any2", "cheapest", "second", "third"}

\* the operator argument of current_hour_price_position_vs_threshold
Operators == {"lte", "lt", "eq", "gte", "gt"}

\* the threshold argument of current_hour_price_position_vs_threshold
Thresholds == {1, 3, 8}

\* the run listener of is_current_hour_in_cheapest and of its 4h, 12h,
\* 24h and 36h siblings, on the capability value currentRank
isCurrentHourInCheapest(currentRank, rank) ==
    CASE rank = "any3" -> currentRank > 0
      [] rank = "any2" -> currentRank = 1 \/ currentRank = 2
      [] rank = "cheapest" -> currentRank = 1
      [] rank = "second" -> currentRank = 2
      [] rank = "third" -> currentRank = 3
      [] OTHER -> FALSE

\* the switch of current_hour_price_position_vs_threshold
positionVsThreshold(pos, operator, thresholdValue) ==
    CASE operator = "lte" -> pos <= thresholdValue
      [] operator = "lt" -> pos < thresholdValue
      [] operator = "eq" -> pos = thresholdValue
      [] operator = "gte" -> pos >= thresholdValue
      [] operator = "gt" -> pos > thresholdValue

Outcome(b) == IF b THEN "true" ELSE "false"

\* the responses the flow conditions are evaluated on
FlowResponses ==
    { HourlyFrames(DeviceHour, prices, live) :
        prices \in [1..MaxFlowFrames -> RankPrices], live \in 0..MaxFlowFrames }
    \cup { << >> }

\* evaluation in the hour of the first frame, or in the hour before it
FlowTimes == {DeviceHour - 30 * MinuteMs, DeviceHour + 30 * MinuteMs}

FlowInit ==
    /\ DriverOnInit
    /\ now \in FlowTimes
    /\ deviceFrames \in FlowResponses
    /\ ranks = [w \in RankWindows |-> 0]
    /\ position = NoPosition
    /\ flowResult = NoFlow
    /\ UsageOnInit

\* A flow evaluates is_current_hour_in_cheapest (or a sibling) with rank.
IsCurrentHourInCheapest(window, rank) ==
    /\ flowResult' = [card |-> "is_current_hour_in_cheapest", window |-> window,
                      outcome |-> Outcome(isCurrentHourInCheapest(ranks[window], rank))]
    /\ UNCHANGED <<now, driver, deviceFrames, ranks, position, usage>>

\* A flow evaluates current_hour_price_position_vs_threshold.
CurrentHourPricePositionVsThreshold(window, operator, threshold) ==
    /\ LET pos == calculateTiedPricePosition(deviceFrames, now, window)
       IN  /\ position' = [hourWindow |-> window, value |-> pos]
           /\ flowResult' = [card |-> "current_hour_price_position_vs_threshold",
                             window |-> window,
                             outcome |-> Outcome(positionVsThreshold(pos, operator, threshold))]
    /\ UNCHANGED <<now, driver, deviceFrames, ranks, usage>>

FlowNext ==
    \/ UpdateCheapestHourRanks
    \/ \E window \in RankWindows, rank \in RankArgs : IsCurrentHourInCheapest(window, rank)
    \/ \E window \in TiedWindows, operator \in Operators, threshold \in Thresholds :
          CurrentHourPricePositionVsThreshold(window, operator, threshold)

FlowSpec == FlowInit /\ [][FlowNext]_vars

\* no frames, or no frame for the current hour: the tied position is the
\* no-data sentinel
NoPositionData(window) ==
    \/ Len(deviceFrames) = 0
    \/ CurrentHourFrame(TiedWindow(deviceFrames, now, window), now) = 0

\* C19: a flow condition evaluated while its ranking is the no-data
\* sentinel (rank 0, tied position hourWindow) is false, for every
\* operator and every threshold.
C19_SentinelMeansFalse ==
    [][ /\ \A window \in RankWindows, rank \in RankArgs :
              (ranks[window] = 0 /\ IsCurrentHourInCheapest(window, rank))
                  => flowResult'.outcome = "false"
        /\ \A window \in TiedWindows, operator \in Operators, threshold \in Thresholds :
              (/\ NoPositionData(window)
               /\ CurrentHourPricePositionVsThreshold(window, operator, threshold))
                  => flowResult'.outcome = "false" ]_vars

\* ---------------------------------------------------------------------
\* The merge pass on its own: mergeBlocks applied to two blocks
\* ---------------------------------------------------------------------

\* the number of hours the two blocks are taken from
MaxMergeHours == 6

\* the prices of those hours, in units of 0.0001 PLN
MergePrices == {1000, 1050, 1200}

\* mergeBlocks is about to be applied to two blocks as findOptimalBlocks
\* leaves them, each of consecutive frames of one response: one starts in
\* the first hour and has n1 frames, the other starts in hour b and has
\* n2; swap: the other comes first in the argument
MergeInit ==
    /\ DriverOnInit
    /\ now = DeviceHour
    /\ deviceFrames = << >>
    /\ ranks = [w \in RankWindows |-> 0]
    /\ position = NoPosition
    /\ flowResult = NoFlow
    /\ previousBlocks = NoBlocks
    /\ lastUsageCheck = 0
    /\ maximise_usage_now = FALSE
    /\ minimise_usage_now = FALSE
    /\ usageChecked = FALSE
    /\ priceRequest = "idle"
    /\ lastPriceUpdate = 0
    /\ deviceTimers = NoTimers
    /\ \E prices \in [1..MaxMergeHours -> MergePrices], n1 \in 1..2, n2 \in 1..2,
          b \in 1..MaxMergeHours, swap \in BOOLEAN :
          LET frames == HourlyFrames(DeviceHour, prices, 0)
              BlockOf(first, n) ==
                  [startTime |-> frames[first].start,
                   endTime |-> frames[first + n - 1].end,
                   frames |-> SubSeq(frames, first, first + n - 1)]
          IN  /\ b + n2 - 1 <= MaxMergeHours
              /\ mergeCall =
                    [called |-> FALSE,
                     blocks |-> IF swap THEN << BlockOf(b, n2), BlockOf(1, n1) >>
                                ELSE << BlockOf(1, n1), BlockOf(b, n2) >>,
                     result |-> << >>]

\* mergeBlocks(blocks) is called and returns.
MergeBlocksCalled ==
    /\ ~mergeCall.called
    /\ mergeCall' = [mergeCall EXCEPT !.called = TRUE,
                                      !.result = mergeBlocks(mergeCall.blocks)]
    /\ UNCHANGED <<now, driver, deviceFrames, ranks, position, flowResult, previousBlocks,
                   lastUsageCheck, maximise_usage_now, minimise_usage_now, usageChecked,
                   priceRequest, lastPriceUpdate, deviceTimers>>

MergeSpec == MergeInit /\ [][MergeBlocksCalled]_vars

C28_WindowFromHourStart ==
    \A hourWindow \in RankWindows :
        (/\ FindLive(deviceFrames) # 0
         /\ deviceFrames[FindLive(deviceFrames)].start = CurrentHourStart(now))
        => LET ranked == FramesWithCurrentHour(deviceFrames, now, hourWindow)
               currentHourStart == CurrentHourStart(now)
           IN  {ranked[i] : i \in 1..Len(ranked)}
               = {deviceFrames[i] : i \in
                    {j \in 1..Len(deviceFrames) :
                        /\ deviceFrames[j].start >= currentHourStart
                        /\ deviceFrames[j].start < currentHourStart + hourWindow * HourMs}}

\* ---------------------------------------------------------------------
\* The block search over a longer response, hour by hour
\* ---------------------------------------------------------------------

\* the number of hourly frames of the response searched; a response of one
\* price throughout has three frames more
MaxSearchFrames == 5

\* the prices of those frames: two within the threshold of each other and
\* one far from both
SearchPrices == {1000, 1050, 1500}

BlockInit ==
    /\ DriverOnInit
    /\ now = DeviceHour
    /\ deviceFrames \in
          { HourlyFrames(DeviceHour, prices, 0) :
              prices \in [1..MaxSearchFrames -> SearchPrices] }
          \cup { HourlyFrames(DeviceHour, [i \in 1..(MaxSearchFrames + 3) |-> p], 0) :
                   p \in SearchPrices }
    /\ ranks = [w \in RankWindows |-> 0]
    /\ position = NoPosition
    /\ flowResult = NoFlow
    /\ UsageOnInit

\* An hour passes, up to the start of the last frame.
HourTick ==
    /\ now + HourMs < DeviceHour + MaxSearchFrames * HourMs
    /\ now' = now + HourMs
    /\ usageChecked' = FALSE
    /\ UNCHANGED <<driver, deviceFrames, ranks, position, flowResult, previousBlocks,
                   lastUsageCheck, maximise_usage_now, minimise_usage_now,
                   priceRequest, lastPriceUpdate, mergeCall, deviceTimers>>

BlockNext ==
    \/ UpdatePricesBegin
    \/ UpdatePricesResponse
    \/ HourTick

BlockSpec == BlockInit /\ [][BlockNext]_vars

\* C22: the stored list of cheap blocks and the stored list of expensive
\* blocks never hold more than 3 blocks, whether they come straight from
\* the search or from the merge with the blocks of the previous computation.
C22_AtMostThreeBlocks ==
    ~previousBlocks.null =>
        /\ Len(previousBlocks.cheapBlocks) <= 3
        /\ Len(previousBlocks.expensiveBlocks) <= 3

\* three cheap blocks are stored after a price update, one of which began
\* before the hour of that update: it was carried over by the merge
C22_ThreeAfterMerge ==
    /\ ~previousBlocks.null
    /\ priceRequest = "idle"
    /\ Len(previousBlocks.cheapBlocks) = 3
    /\ \E i \in 1..3 :
          previousBlocks.cheapBlocks[i].startTime < CurrentHourStart(lastPriceUpdate)

\* C29: when a price update stores the result of a first search, the first
\* cheap block (the one seeded with the cheapest frame) has been extended
\* as far as the rule allows: unless it holds 6 frames, no future frame
\* left out of it starts where the block ends or ends where the block
\* starts with a price within the threshold of the block's average.
C29_ExtendsAtEitherEnd ==
    [][(/\ priceRequest = "pending"
        /\ priceRequest' = "idle"
        /\ previousBlocks.null
        /\ ~previousBlocks'.null)
       => LET block == previousBlocks'.cheapBlocks[1]
              sum == SumPrices(block.frames)
              n == Len(block.frames)
          IN  n < 6 =>
                \A i \in 1..Len(deviceFrames) :
                    LET f == deviceFrames[i]
                        diff == IF f.price_gross * n >= sum THEN f.price_gross * n - sum
                                ELSE sum - f.price_gross * n
                    IN  (/\ f.end > now
                         /\ \/ f.start = block.endTime
                            \/ f.end = block.startTime)
                        => diff * 100 > sum * 10]_vars

\* ---------------------------------------------------------------------
\* The expiration a fetch installs, for every refresh hour and time of day
\* ---------------------------------------------------------------------

\* the values of the setting priceRefreshHour
RefreshHours == 0..23

\* One device with an API key and any refresh hour is paired, and onInit
\* runs on the hour or half past it, at any hour of the day.
HourInit ==
    /\ now \in {DayMs + h * HourMs + off : h \in 0..23, off \in {0, 30 * MinuteMs}}
    /\ devices \in {<< [apiKey |-> "key", priceRefreshHour |-> h] >> : h \in RefreshHours}
    /\ deleted = FALSE
    /\ cache = EmptyCache
    /\ isRefreshing = FALSE
    /\ manualRefreshRequested = FALSE
    /\ lastManualRefreshTime = 0
    /\ inflight = << >>
    /\ startupTimer = now + StartupDelay
    /\ refreshTimeout = scheduleNextRefresh(now)
    /\ cacheCheckInterval = now + CheckInterval
    /\ retryTimer = NoRetry
    /\ lastStatus = "none"
    /\ lastManual = NoManual
    /\ installed = NoData
    /\ acceptedAt = 0
    /\ ticks = 0
    /\ updateCalls = 0
    /\ DeviceOnInit

\* a manual refresh is asked for at once, and its request settles
HourNext ==
    \/ RequestManualRefreshImmediate
    \/ \E i \in 1..Len(inflight) : \E resp \in Responses(inflight[i].startedAt) :
           FetchComplete(i, resp)

HourSpec == HourInit /\ [][HourNext]_vars

\* C23: a refresh that ends with fresh data at time now, the device's
\* refresh hour being H, leaves expiresAt at today's H:00 when now is
\* before it and at tomorrow's H:00 otherwise, for every H from 0 to 23.
C23_NextOccurrenceOfRefreshHour ==
    [][(Len(inflight') < Len(inflight) /\ lastStatus' = "fresh")
       => LET H == devices[1].priceRefreshHour
              todayAtH == (now \div DayMs) * DayMs + H * HourMs
          IN  cache'.expiresAt = IF now < todayAtH THEN todayAtH
                                 ELSE todayAtH + DayMs]_vars

\* C24 as stated: a 30-minute check that finds a manual refresh requested
\* and no refresh in flight issues an upstream request.
C24_CheckIssuesRequest ==
    [][(/\ cacheCheckInterval' # cacheCheckInterval
        /\ manualRefreshRequested
        /\ ~isRefreshing)
       => Len(inflight') = Len(inflight) + 1]_vars

\* C24: a request made by requestManualRefresh stays pending until a call
\* of refreshAllDevices passes the guard, and a 30-minute check that finds
\* it pending and no refresh in flight starts a refresh, whether the cache
\* is valid or not, which takes the request and, when a device with an API
\* key is paired, issues an upstream request.
C24_PendingUntilRefresh ==
    [][/\ (manualRefreshRequested /\ ~manualRefreshRequested')
          => (~isRefreshing /\ (isRefreshing' \/ Len(devices) = 0 \/ devices[1].apiKey = ""))
       /\ (/\ cacheCheckInterval' # cacheCheckInterval
           /\ manualRefreshRequested
           /\ ~isRefreshing)
          => /\ ~manualRefreshRequested'
             /\ (Len(devices) > 0 /\ devices[1].apiKey # "")
                => (isRefreshing' /\ Len(inflight') = Len(inflight) + 1)]_vars

\* a refresh started by the 30-minute check is in flight although the
\* cache was valid when it started
C24_CheckRefreshedValidCache ==
    \E i \in 1..Len(inflight) :
        /\ inflight[i].caller = "interval"
        /\ isCacheValid(inflight[i].cacheAtStart, inflight[i].startedAt)

\* C25: when a refresh started by updatePrices(retryCount) ends in failure,
\* updatePrices schedules retry number retryCount + 1 after 5 s, 10 s and
\* 20 s for retryCount 0, 1 and 2, and schedules nothing for retryCount 3.
C25_BackoffChain ==
    [][(Len(inflight') < Len(inflight) /\ lastStatus' = "error")
       => \A i \in 1..Len(inflight) :
            (inflight[i].caller = "updatePrices" /\ RefreshFails(i))
            => LET rc == inflight[i].retryCount
                   delays == << 5 * SecondMs, 10 * SecondMs, 20 * SecondMs >>
               IN  IF rc < 3
                   THEN retryTimer' = [at |-> now + delays[rc + 1], retryCount |-> rc + 1]
                   ELSE retryTimer' = retryTimer]_vars

\* C27: the step in which the fetch of a refresh settles (with fresh data,
\* with the stale fallback or with a failure) leaves isRefreshing false,
\* and isRefreshing is set only by a call that puts a request in flight: a
\* call that returns early for want of a device or of an API key leaves it
\* false. The guard is never left set without a fetch in flight.
C27_GuardReleased ==
    [][/\ Len(inflight') < Len(inflight) => ~isRefreshing'
       /\ (~isRefreshing /\ isRefreshing') => Len(inflight') = Len(inflight) + 1]_vars

\* a refresh has settled and a later trigger has started a new one
C27_RefreshAfterSettle ==
    /\ lastStatus \in {"fresh", "stale", "error"}
    /\ isRefreshing
    /\ Len(inflight) = 1
    /\ inflight[1].startedAt > StartupDelay + CHOOSE t \in StartTimes : TRUE

\* C30: when a refresh settles with status 'fresh' or 'stale', the payload
\* of its 'cache-updated' event, which is getCachedData() read right after
\* updateCache, is a snapshot and not null.
C30_PayloadIsSnapshot ==
    [][(Len(inflight') < Len(inflight) /\ lastStatus' \in {"fresh", "stale"})
       => getCachedData(cache', now) # NullSnapshot]_vars

\* ---------------------------------------------------------------------
\* The driver's timers when the driver is deleted
\* ---------------------------------------------------------------------

\* onDeleted(): clearInterval(_cacheCheckInterval) and
\* clearTimeout(_refreshTimeout), each when it is set.
OnDeleted ==
    /\ ~deleted
    /\ deleted' = TRUE
    /\ cacheCheckInterval' = 0
    /\ refreshTimeout' = 0
    /\ UNCHANGED <<device, now, devices, orchestrator, inflight, startupTimer, retryTimer,
                   lastStatus, lastManual, installed, acceptedAt, ticks, updateCalls>>

\* the timers fire, the requests settle, and onDeleted runs at any moment
LifeNext ==
    \/ \E d \in Steps : Tick(d)
    \/ StartupFire
    \/ TimeoutFire
    \/ IntervalFire
    \/ \E i \in 1..Len(inflight) : \E resp \in Responses(inflight[i].startedAt) :
           FetchComplete(i, resp)
    \/ OnDeleted

LifeSpec == Init /\ [][LifeNext]_vars

\* C26: once onDeleted has run, neither the startup timer nor the daily
\* refresh timeout nor the 30-minute interval is pending.
C26_NoTimerAfterDeleted ==
    deleted => (startupTimer = 0 /\ refreshTimeout = 0 /\ cacheCheckInterval = 0)

\* C31: the capabilities maximise_usage_now and minimise_usage_now are
\* never both true.
C31_NeverBothFlags == ~(maximise_usage_now /\ minimise_usage_now)

\* C32: the step in which a price update stores a new set of blocks leaves
\* maximise_usage_now and minimise_usage_now equal to the membership of
\* the current time in the cheap and in the expensive blocks just stored.
C32_FlagsFollowNewBlocks ==
    [][(/\ priceRequest = "pending"
        /\ priceRequest' = "idle"
        /\ previousBlocks' # previousBlocks)
       => /\ maximise_usage_now' =
                (\E i \in 1..Len(previousBlocks'.cheapBlocks) :
                    /\ now >= previousBlocks'.cheapBlocks[i].startTime
                    /\ now <= previousBlocks'.cheapBlocks[i].endTime)
          /\ minimise_usage_now' =
                (\E i \in 1..Len(previousBlocks'.expensiveBlocks) :
                    /\ now >= previousBlocks'.expensiveBlocks[i].startTime
                    /\ now <= previousBlocks'.expensiveBlocks[i].endTime)]_vars

\* C33: when a price update merges the unfinished previous blocks of a
\* direction with the new ones and more than 3 blocks come out of the merge
\* pass, no block left out of the stored list is more extreme than a
\* stored one: none is cheaper than a stored cheap block, and none is more
\* expensive than a stored expensive block.
C33_KeepsMostExtreme ==
    [][(/\ priceRequest = "pending"
        /\ priceRequest' = "idle"
        /\ ~previousBlocks.null
        /\ ~previousBlocks'.null)
       => \A isAscending \in BOOLEAN :
            LET previous == IF isAscending THEN previousBlocks.cheapBlocks
                            ELSE previousBlocks.expensiveBlocks
                kept == IF isAscending THEN previousBlocks'.cheapBlocks
                        ELSE previousBlocks'.expensiveBlocks
                validPrevious == SelectSeq(previous, LAMBDA b : b.endTime > now)
                found == findOptimalBlocks(FutureFrames(deviceFrames, now), isAscending)
                sortedBlocks == SortByStartTime(validPrevious \o found)
                merged == MergeLoop(Tail(sortedBlocks), Head(sortedBlocks), << >>)
            IN  (Len(validPrevious) > 0 /\ Len(merged) > 3)
                => \A d \in 1..Len(merged) : \A k \in 1..Len(kept) :
                      (\A j \in 1..Len(kept) : kept[j] # merged[d])
                      => IF isAscending
                         THEN SumPrices(merged[d].frames) * Len(kept[k].frames)
                                >= SumPrices(kept[k].frames) * Len(merged[d].frames)
                         ELSE SumPrices(merged[d].frames) * Len(kept[k].frames)
                                <= SumPrices(kept[k].frames) * Len(merged[d].frames)]_vars

\* C34: every stored block, cheap or expensive, is covered by its frames:
\* its span endTime - startTime is the summed duration of its frames, and
\* every hour beginning in [startTime, endTime) is the start of one of them.
C34_BlockCoveredByFrames ==
    ~previousBlocks.null =>
        \A blocks \in {previousBlocks.cheapBlocks, previousBlocks.expensiveBlocks} :
            \A b \in 1..Len(blocks) :
                LET block == blocks[b]
                    hours == (block.endTime - block.startTime) \div HourMs
                IN  /\ block.endTime - block.startTime = Len(block.frames) * HourMs
                    /\ \A h \in 0..(hours - 1) :
                          \E i \in 1..Len(block.frames) :
                              block.frames[i].start = block.startTime + h * HourMs

\* C35: every block a first search stores, cheap or expensive, holds 1 to 6
\* frames, each starting exactly where the one before it ends.
C35_ConsecutiveFrames ==
    [][(/\ priceRequest = "pending"
        /\ priceRequest' = "idle"
        /\ previousBlocks.null
        /\ ~previousBlocks'.null)
       => \A blocks \in {previousBlocks'.cheapBlocks, previousBlocks'.expensiveBlocks} :
            \A b \in 1..Len(blocks) :
                /\ Len(blocks[b].frames) \in 1..6
                /\ \A i \in 1..(Len(blocks[b].frames) - 1) :
                      blocks[b].frames[i + 1].start = blocks[b].frames[i].end]_vars

\* a first search has stored a cheap block of 6 frames that stopped at the
\* cap: the next hour has the same price and is the seed of the next block
C35_StoppedAtSixFrames ==
    /\ ~previousBlocks.null
    /\ lastPriceUpdate = DeviceHour
    /\ Len(previousBlocks.cheapBlocks) >= 2
    /\ Len(previousBlocks.cheapBlocks[1].frames) = 6
    /\ previousBlocks.cheapBlocks[2].startTime = previousBlocks.cheapBlocks[1].endTime
    /\ previousBlocks.cheapBlocks[2].frames[1].price_gross
          = previousBlocks.cheapBlocks[1].frames[6].price_gross


\* C36: every block that a recomputation returns, cheap or expensive, ends
\* after the time of the recomputation, so no block of an earlier cycle that
\* has ended by then is carried into the result.
C36_ReturnedBlocksEndLater ==
    [][(/\ priceRequest = "pending"
        /\ priceRequest' = "idle"
        /\ ~previousBlocks'.null
        /\ \E i \in 1..Len(deviceFrames) : deviceFrames[i].end > now
        /\ previousBlocks' = findOptimalPeriods(deviceFrames, now, previousBlocks))
       => \A blocks \in {previousBlocks'.cheapBlocks, previousBlocks'.expensiveBlocks} :
            \A b \in 1..Len(blocks) : blocks[b].endTime > now]_vars

\* the second recomputation, one hour after the first, has finished (its
\* usage check ran before the request, so blocks were stored by then), and
\* the first one had stored a cheap block that ended at this very moment
C36_EndedBlockDropped ==
    /\ now = DeviceHour + HourMs
    /\ priceRequest = "idle"
    /\ lastPriceUpdate = now
    /\ lastUsageCheck = now
    /\ ~usageChecked
    /\ ~previousBlocks.null
    /\ LET first == findOptimalPeriods(deviceFrames, DeviceHour, NoBlocks)
       IN  \E b \in 1..Len(first.cheapBlocks) : first.cheapBlocks[b].endTime = now


\* C37: the one pending daily-refresh timeout of the driver is set for an
\* occurrence of the configured refresh hour (the priceRefreshHour of the
\* first device, 15 without devices) that has not passed; when it was set,
\* that occurrence lay strictly ahead.
C37_TimeoutAtConfiguredHour ==
    refreshTimeout # 0 =>
        LET hour == IF Len(devices) > 0 THEN devices[1].priceRefreshHour
                    ELSE DefaultRefreshHour
        IN  /\ refreshTimeout >= now
            /\ refreshTimeout = SetHours(refreshTimeout, hour)


\* C38: a requestManualRefreshImmediate call is rejected exactly when less
\* than 5 minutes have passed since the last accepted call, whatever became
\* of that call's refresh; an accepted call starts the cooldown at the time
\* of the call, a rejected call reports the time left of the cooldown it
\* found and leaves its start alone, and no other step moves the start.
C38_CooldownFromAcceptance ==
    [][/\ RequestManualRefreshImmediate =>
            IF acceptedAt > 0 /\ now - acceptedAt < 5 * MinuteMs
            THEN /\ lastManual'.result = "cooldown"
                 /\ lastManual'.remaining * 1000 >= 5 * MinuteMs - (now - acceptedAt)
                 /\ lastManual'.remaining * 1000 < 5 * MinuteMs - (now - acceptedAt) + 1000
                 /\ lastManualRefreshTime' = lastManualRefreshTime
            ELSE /\ lastManual'.result # "cooldown"
                 /\ lastManualRefreshTime' = now
       /\ lastManualRefreshTime' # lastManualRefreshTime
            => (lastManualRefreshTime' = now /\ lastStatus' = "refreshing")]_vars

\* without devices an accepted call fetched nothing, and the call made one
\* millisecond before the end of its cooldown was rejected
C38_RejectedAfterNoFetch ==
    /\ Len(devices) = 0
    /\ acceptedAt > 0
    /\ lastStatus = "refreshing"
    /\ lastManual.result = "cooldown"
    /\ lastManual.remaining = 1
    /\ now - lastManualRefreshTime = 5 * MinuteMs - 1


\* C39: a refresh that falls back to the previous snapshot after a failed
\* fetch installs an expiresAt that is not earlier than the expiresAt the
\* cache had before the failure.
C39_FallbackNeverShortens ==
    [][(/\ Len(inflight') < Len(inflight)
        /\ lastStatus' = "stale")
       => cache'.expiresAt >= cache.expiresAt]_vars


----------------------------------------------------------------------------
(* PstrykPriceDevice: the timeouts of setupPriceRefresh                    *)
(*                                                                         *)
(* deviceTimers.chains holds one record per timeout chain: its kind, the   *)
(* time its pending timeout fires (0 while its callback awaits             *)
(* updatePrices), and whether the device's handle (_refreshTimeout or      *)
(* _hourlyTimeout) is the handle of that timeout.                          *)

\* the number of priceRefreshHour changes followed
MaxSettingChanges == 2

\* the number of hours followed after onInit
MaxTimerHours == 2

\* the values of the priceRefreshHour setting
TimerHours == {0, 23}

\* the time of onInit
TimerStart == DayMs + 22 * HourMs + 30 * MinuteMs

\* nextRefresh of scheduleNextRefresh at time t, for the setting h
NextDailyRefresh(h, t) ==
    LET refreshHour == IF h # 0 THEN h ELSE DefaultRefreshHour
    IN  IF GetHours(t) >= refreshHour THEN SetHours(AddDay(t), refreshHour)
        ELSE SetHours(t, refreshHour)

\* nextHour of setupHourlyCheck at time t
NextHour(t) == (t \div HourMs) * HourMs + HourMs

\* the handle of `kind` is overwritten: no chain's timeout is the one it names
ReleaseHandle(chains, kind) ==
    [i \in DOMAIN chains |->
        IF chains[i].kind = kind THEN [chains[i] EXCEPT !.held = FALSE] ELSE chains[i]]

\* setupPriceRefresh() at time t with settings.priceRefreshHour = h:
\* scheduleNextRefresh() and setupHourlyCheck() each set a timeout and store
\* its handle
setupPriceRefresh(chains, h, t) ==
    ReleaseHandle(ReleaseHandle(chains, "daily"), "hourly")
        \o << [kind |-> "daily", refreshHour |-> h,
               at |-> NextDailyRefresh(h, t), held |-> TRUE],
              [kind |-> "hourly", refreshHour |-> h,
               at |-> NextHour(t), held |-> TRUE] >>

\* onInit of the device
TimerInit ==
    /\ DriverOnInit
    /\ now = TimerStart
    /\ deviceFrames = << >>
    /\ ranks = [w \in RankWindows |-> 0]
    /\ position = NoPosition
    /\ flowResult = NoFlow
    /\ previousBlocks = NoBlocks
    /\ lastUsageCheck = 0
    /\ maximise_usage_now = FALSE
    /\ minimise_usage_now = FALSE
    /\ usageChecked = FALSE
    /\ priceRequest = "idle"
    /\ lastPriceUpdate = 0
    /\ mergeCall = NoMergeCall
    /\ \E h \in TimerHours :
          deviceTimers = [priceRefreshHour |-> h,
                          chains |-> setupPriceRefresh(<< >>, h, now),
                          deleted |-> FALSE, changes |-> 0]

\* onSettings with changedKeys = ["priceRefreshHour"]: _priceRefreshInterval
\* is never set, so nothing is cleared, and setupPriceRefresh() runs
DeviceOnSettings ==
    /\ ~deviceTimers.deleted
    /\ deviceTimers.changes < MaxSettingChanges
    /\ \E h \in TimerHours \ {deviceTimers.priceRefreshHour} :
          deviceTimers' = [deviceTimers EXCEPT
                              !.priceRefreshHour = h,
                              !.chains = setupPriceRefresh(@, h, now),
                              !.changes = @ + 1]
    /\ UNCHANGED <<now, driver, deviceFrames, ranks, position, flowResult, previousBlocks,
                   lastUsageCheck, maximise_usage_now, minimise_usage_now, usageChecked,
                   priceRequest, lastPriceUpdate, mergeCall>>

\* A timeout of a chain fires: its callback starts and awaits updatePrices().
DeviceTimeoutFire ==
    /\ \E i \in DOMAIN deviceTimers.chains :
          /\ deviceTimers.chains[i].at # 0
          /\ deviceTimers.chains[i].at <= now
          /\ deviceTimers' = [deviceTimers EXCEPT !.chains[i].at = 0]
    /\ UNCHANGED <<now, driver, deviceFrames, ranks, position, flowResult, previousBlocks,
                   lastUsageCheck, maximise_usage_now, minimise_usage_now, usageChecked,
                   priceRequest, lastPriceUpdate, mergeCall>>

\* updatePrices() returns to the callback, which never throws: the daily
\* callback calls scheduleNextRefresh(), the hourly one setupHourlyCheck()
DeviceTimeoutDone ==
    /\ \E i \in DOMAIN deviceTimers.chains :
          LET chain == deviceTimers.chains[i]
              released == ReleaseHandle(deviceTimers.chains, chain.kind)
          IN  /\ chain.at = 0
              /\ deviceTimers' =
                    [deviceTimers EXCEPT
                        !.chains = [released EXCEPT
                                       ![i].at = IF chain.kind = "daily"
                                                 THEN NextDailyRefresh(chain.refreshHour, now)
                                                 ELSE NextHour(now),
                                       ![i].held = TRUE]]
    /\ UNCHANGED <<now, driver, deviceFrames, ranks, position, flowResult, previousBlocks,
                   lastUsageCheck, maximise_usage_now, minimise_usage_now, usageChecked,
                   priceRequest, lastPriceUpdate, mergeCall>>

\* onDeleted of the device: clearTimeout(_refreshTimeout) and
\* clearTimeout(_hourlyTimeout)
DeviceOnDeleted ==
    /\ ~deviceTimers.deleted
    /\ deviceTimers' = [deviceTimers EXCEPT
                           !.chains = SelectSeq(@, LAMBDA c : ~(c.held /\ c.at # 0)),
                           !.deleted = TRUE]
    /\ UNCHANGED <<now, driver, deviceFrames, ranks, position, flowResult, previousBlocks,
                   lastUsageCheck, maximise_usage_now, minimise_usage_now, usageChecked,
                   priceRequest, lastPriceUpdate, mergeCall>>

\* Time passes to the next firing of a timeout.
TimerTick ==
    LET pending == {deviceTimers.chains[i].at : i \in DOMAIN deviceTimers.chains} \ {0}
    IN  /\ pending # {}
        /\ \A at \in pending : at > now
        /\ now' = CHOOSE at \in pending : \A other \in pending : at <= other
        /\ now' <= TimerStart + MaxTimerHours * HourMs
        /\ UNCHANGED <<driver, device>>

TimerNext ==
    \/ DeviceOnSettings
    \/ DeviceTimeoutFire
    \/ DeviceTimeoutDone
    \/ DeviceOnDeleted
    \/ TimerTick

TimerSpec == TimerInit /\ [][TimerNext]_vars

\* C40: while the device lives, exactly one daily-refresh chain and exactly
\* one hourly-check chain are active, whatever priceRefreshHour changes were
\* made; after onDeleted no timeout of either kind is pending.
C40_OneChainOfEachKind ==
    LET chains == deviceTimers.chains
        count(kind) == Cardinality({i \in DOMAIN chains : chains[i].kind = kind})
    IN  IF deviceTimers.deleted
        THEN \A i \in DOMAIN chains : chains[i].at = 0
        ELSE count("daily") = 1 /\ count("hourly") = 1

====
